---- MODULE Spec2Model ----
(***************************************************************************)
(* Model of the browser scripts of the weather-briefing UI.                *)
(*                                                                         *)
(* Aero page (src/unnamed/part_001, lines 1004-1542): the DOMContentLoaded *)
(* handler, the Build / Clear buttons, the /aero/fetch promise callbacks   *)
(* and the three renderers createTemperatureChart, createWindChart and     *)
(* createDataTable.                                                        *)
(*                                                                         *)
(* METAR page (src/unnamed/part_001, lines 1-1003): the list of selected   *)
(* airports, fetchMetarTaf with its AbortController and its cache,         *)
(* clearAll, and auto-refresh.  Time is counted in minutes.                *)
(*                                                                         *)
(* Archive page (src/static/js/archive.js): the DOMContentLoaded handler,  *)
(* loadArchive and the callbacks of its two requests.                      *)
(*                                                                         *)
(* A handler runs to completion together with the promise callbacks that   *)
(* are already due when it returns; a response, a timer callback and a     *)
(* user event are steps of their own.                                      *)
(*                                                                         *)
(* JavaScript Numbers are modelled on a decimal grid: a Number is the      *)
(* integer count of 1/SCALE units (hundredths).  + and - are exact on the  *)
(* grid; *, / and the Math functions round their real result down to the   *)
(* grid, so that Math.floor of a quotient is the floor of the real         *)
(* quotient, as it is for the doubles of the program.                      *)
(* IEEE-754 binary rounding (a relative error of 2^-53 per operation) is   *)
(* not modelled.  The two non-numeric results of JavaScript arithmetic and *)
(* indexing, NaN and undefined, are two reserved values outside the range  *)
(* of every Number the model computes.                                     *)
(***************************************************************************)
EXTENDS Integers, Sequences, FiniteSets, TLC

(***************************************************************************)
(* The state of the pages: the aero page, the METAR page and the archive   *)
(* page.  Each page is a document of its own; a specification runs one     *)
(* page and leaves the variables of the others as served.                  *)
(***************************************************************************)
VARIABLES
    innerWidth,           \* window.innerWidth
    hardwareConcurrency,  \* navigator.hardwareConcurrency (undefined if absent)
    userAgent,            \* navigator.userAgent, as its set of product tokens
    aeroPage,             \* "loading" until DOMContentLoaded has run, then "ready"
    isLowPerformance,     \* the const of the handler
    stationsFetch,        \* whether the /aero/stations request is outstanding
    stationOptions,       \* the station codes offered by #station-select
    stationSelect,        \* stationSelect.value ("" for none)
    dateInput,            \* dateInput.value ("" for none)
    hourSelect,           \* hourSelect.value
    aeroFetches,          \* the outstanding /aero/fetch requests, oldest first
    loadingAero,          \* #loading-aero is displayed
    errorAero,            \* #error-aero: [shown, text]
    stationInfo,          \* #station-info: [shown, title, date, hour, levels, temp]
    indicesSection,       \* #indices-section is displayed
    chartsSection,        \* #charts-section is displayed
    dataTableSection,     \* #data-table-section is displayed
    tempChart,            \* the traces plotted in #temp-chart
    windChart,            \* the traces plotted in #wind-chart
    soundingTable,        \* the rows of #sounding-tbody
    lastData,             \* the argument of the latest displayResults call, as
                          \* a sequence of length 0 (no call yet) or 1
    builtAtWidth,         \* window.innerWidth at the latest displayResults call
                          \* (0 before the first): a history variable
    afterOther,           \* whether the latest displayResults call followed a
                          \* call with another sounding: a history variable
    latestRequest,        \* the body of the latest /aero/fetch request sent, as
                          \* a sequence of length 0 or 1: a history variable
    shownRequest,         \* the request whose response the latest
                          \* displayResults call displayed: a history variable
    \* ---- the METAR page ----
    now,                  \* Date.now(), in minutes
    cleanupDue,           \* the once-a-minute cleanup timer has a callback due
    selectedAirports,     \* let selectedAirports: the airports, in order
    currentFetchController, \* 0 for null, or the number of the AbortController
    controllersCreated,   \* how many AbortControllers were created so far
    dataCache,            \* const dataCache: key -> [data, timestamp]
    manualBatches,        \* the Promise.all batches of fetchMetarTaf that still
                          \* have a callback or a request outstanding
    loadingMetar,         \* #loading is displayed
    errorMetar,           \* #error-message: [shown, text]
    resultSection,        \* #result-section: [shown, header, cards]
    autoRefreshPanel,     \* #auto-refresh-panel is displayed
    autoRefreshToggle,    \* autoRefreshToggle.checked
    autoRefreshInterval,  \* let autoRefreshInterval is not null
    countdownInterval,    \* let countdownInterval is not null
    refreshTimers,        \* the active interval timers that call performAutoRefresh
    countdownTimers,      \* the active interval timers that call updateCountdown
    autoBatches,          \* the Promise.all batches of performAutoRefresh in flight
    lastMetarRaw,         \* let lastMetarRaw: key -> METAR text ("" for no entry)
    shownBatch,           \* the controller number of the manual batch whose
                          \* results were displayed last (0: none, or an
                          \* auto-refresh display): a history variable
    cleared,              \* clearAll ran and no manual fetch was started since:
                          \* a history variable
    cacheAgeShown,        \* the greatest age, at the time of the latest manual
                          \* display, of the data it took from the cache (-1 if
                          \* none): a history variable
    \* ---- the archive page ----
    archivePage,          \* "loading" until DOMContentLoaded has run, then "ready"
    icao,                 \* const icao: the icao URL parameter ("" if missing)
    dateRange,            \* dateFrom.value and dateTo.value
    archiveRequests,      \* the outstanding /metar-archive and /taf-archive
                          \* requests
    requestsSent,         \* how many archive requests were sent so far
    loadingArchive,       \* #loading is displayed
    errorArchive,         \* #error-message: [shown, text]
    archiveMetarSection,  \* #archive-metar-section is displayed
    archiveTafSection     \* #archive-taf-section is displayed

(***************************************************************************)
(* Numbers                                                                 *)
(***************************************************************************)
SCALE == 100

Num(n) == n * SCALE

\* the decimal literal n/d, e.g. Dec(4, 100) for 0.04
Dec(n, d) == (n * SCALE) \div d

NaN == 0 - 2000000000

undefined == 0 - 2000000001

IsNum(x) == x # NaN /\ x # undefined

\* n / d rounded down to the grid, d > 0
GridDiv(n, d) == n \div d

Add(a, b) == IF IsNum(a) /\ IsNum(b) THEN a + b ELSE NaN

Sub(a, b) == IF IsNum(a) /\ IsNum(b) THEN a - b ELSE NaN

Mul(a, b) == IF IsNum(a) /\ IsNum(b) THEN GridDiv(a * b, SCALE) ELSE NaN

\* the divisors of the program are the positive literals 5, 10, 20, 50, 1000
Div(a, b) == IF IsNum(a) /\ IsNum(b) THEN GridDiv(a * SCALE, b) ELSE NaN

\* a % b of JavaScript: the remainder has the sign of the dividend
Rem(a, b) ==
    IF ~(IsNum(a) /\ IsNum(b)) THEN NaN
    ELSE IF a >= 0 THEN a % b ELSE 0 - ((0 - a) % b)

MathFloor(x) == IF IsNum(x) THEN (x \div SCALE) * SCALE ELSE NaN

MathMax(a, b) == IF ~(IsNum(a) /\ IsNum(b)) THEN NaN ELSE IF a >= b THEN a ELSE b

MathMin(a, b) == IF ~(IsNum(a) /\ IsNum(b)) THEN NaN ELSE IF a <= b THEN a ELSE b

\* a <= b and a < b of JavaScript: false when either side is NaN or undefined
Leq(a, b) == IsNum(a) /\ IsNum(b) /\ a <= b

Less(a, b) == IsNum(a) /\ IsNum(b) /\ a < b

RECURSIVE ISqrtIter(_, _, _)
\* the integer r with r*r <= n < (r+1)*(r+1), by bisection of lo..hi
ISqrtIter(n, lo, hi) ==
    IF hi - lo <= 1 THEN lo
    ELSE LET mid == (lo + hi) \div 2
         IN  IF mid * mid <= n THEN ISqrtIter(n, mid, hi)
             ELSE ISqrtIter(n, lo, mid)

\* Math.sqrt, rounded down to the grid
MathSqrt(x) ==
    IF ~IsNum(x) \/ x < 0 THEN NaN ELSE ISqrtIter(x * SCALE, 0, 46341)

\* arr[i] of JavaScript (i counted from 0): undefined outside the array
At(arr, i) == IF i >= 0 /\ i < Len(arr) THEN arr[i + 1] ELSE undefined

\* arr.map((e, i) => f(e, i))
Map(arr, f(_, _)) == [k \in 1..Len(arr) |-> f(arr[k], k - 1)]

\* for (let x = from; x <= to; x += step)
RECURSIVE ForUp(_, _, _)
ForUp(from, to, step) ==
    IF Leq(from, to) THEN <<from>> \o ForUp(Add(from, step), to, step) ELSE <<>>

\* for (let x = from; x >= to; x -= step)
RECURSIVE ForDown(_, _, _)
ForDown(from, to, step) ==
    IF Leq(to, from) THEN <<from>> \o ForDown(Sub(from, step), to, step) ELSE <<>>

(***************************************************************************)
(* Device classification (the const isLowPerformance of the aero handler)  *)
(***************************************************************************)
\* the alternatives of the user-agent pattern, matched case-insensitively;
\* a user agent is modelled as the set of product tokens it holds
MobilePattern ==
    {"android", "webos", "iphone", "ipad", "ipod", "blackberry", "iemobile",
     "opera mini"}

RegexTest(pattern, agent) == agent \cap pattern # {}

\* the width compared with < for <=
ClassifyDevice_strict(width, concurrency, agent) ==
    \/ Less(width, 768)
    \/ Leq(concurrency, 2)
    \/ RegexTest(MobilePattern, agent)

ClassifyDevice(width, concurrency, agent) ==
    \/ Leq(width, 768)
    \/ Leq(concurrency, 2)
    \/ RegexTest(MobilePattern, agent)

(***************************************************************************)
(* createTemperatureChart                                                  *)
(***************************************************************************)
\* a slip of the literal: 0.4 for 0.04
skewFactor_tenfold == Dec(4, 10)

skewFactor == Dec(4, 100)

\* a slip of the sign: the shift taken from p - 1000
SkewX_reversed(value, p) == Add(value, Mul(Sub(p, Num(1000)), skewFactor))

\* value + (1000 - p) * skewFactor
SkewX(value, p) == Add(value, Mul(Sub(Num(1000), p), skewFactor))

isothermStep(low) == IF low THEN Num(20) ELSE Num(10)

\* the two steps exchanged
pressureStep_swapped(low) == IF low THEN Num(50) ELSE Num(100)

pressureStep(low) == IF low THEN Num(100) ELSE Num(50)

\* the full set ended at 80
theta0Values_short(low) ==
    IF low THEN <<Num(-40), Num(0), Num(40), Num(80)>>
    ELSE <<Num(-40), Num(-20), Num(0), Num(20), Num(40), Num(60), Num(80)>>

theta0Values(low) ==
    IF low THEN <<Num(-40), Num(0), Num(40), Num(80)>>
    ELSE <<Num(-40), Num(-20), Num(0), Num(20), Num(40), Num(60), Num(80), Num(100)>>

adiabatStep(low) == IF low THEN Num(20) ELSE Num(10)

\* Math.pow(p / 1000, 0.286) for the sampled pressures 1050, 1040, ..., 100,
\* rounded to the grid
PowTable ==
    <<101, 101, 101, 101, 100, 100, 100, 99, 99, 99, 99, 98, 98, 98, 97, 97,
      97, 96, 96, 96, 95, 95, 95, 94, 94, 94, 93, 93, 93, 92, 92, 92, 91, 91,
      91, 90, 90, 90, 89, 89, 88, 88, 88, 87, 87, 86, 86, 86, 85, 85, 84, 84,
      83, 83, 82, 82, 82, 81, 81, 80, 80, 79, 79, 78, 77, 77, 76, 76, 75, 75,
      74, 73, 73, 72, 72, 71, 70, 69, 69, 68, 67, 66, 66, 65, 64, 63, 62, 61,
      60, 59, 58, 57, 56, 55, 53, 52>>

PoissonFactor(p) == PowTable[((Num(1050) - p) \div Num(10)) + 1]

\* one isotherm: temp held constant over the sampled pressures
IsothermLine(temp, pStep) ==
    LET ps == ForDown(Num(1050), Num(100), pStep)
    IN  [x |-> [k \in 1..Len(ps) |-> SkewX(temp, ps[k])], y |-> ps]

\* the loop ended by temp < 40 for temp <= 40
IsothermFamily_exclusive(tStep, pStep) ==
    LET temps == ForUp(Num(-80), Sub(Num(40), Num(1)), tStep)
    IN  [k \in 1..Len(temps) |-> IsothermLine(temps[k], pStep)]

IsothermFamily(tStep, pStep) ==
    LET temps == ForUp(Num(-80), Num(40), tStep)
    IN  [k \in 1..Len(temps) |-> IsothermLine(temps[k], pStep)]

\* one dry adiabat: t = theta0 * Math.pow(p / 1000, 0.286) - 273.15
AdiabatLine(theta0, aStep) ==
    LET ps == ForDown(Num(1050), Num(100), aStep)
        t(p) == Sub(Mul(theta0, PoissonFactor(p)), Dec(27315, 100))
    IN  [x |-> [k \in 1..Len(ps) |-> SkewX(t(ps[k]), ps[k])], y |-> ps]

AdiabatFamily(thetas, aStep) ==
    [k \in 1..Len(thetas) |-> AdiabatLine(thetas[k], aStep)]

pressureLevels ==
    <<Num(1000), Num(850), Num(700), Num(500), Num(300), Num(200), Num(100)>>

\* the end points left unskewed
IsobarLine_unskewed(p) == [x |-> <<Num(-100), Num(60)>>, y |-> <<p, p>>]

IsobarLine(p) ==
    [x |-> <<SkewX(Num(-100), p), SkewX(Num(60), p)>>, y |-> <<p, p>>]

IsobarFamily == [k \in 1..Len(pressureLevels) |-> IsobarLine(pressureLevels[k])]

\* the three background families, which the function computes from
\* isLowPerformance alone, for each of its two values
backgroundGrid ==
    [low \in BOOLEAN |->
        [isotherms   |-> IsothermFamily(isothermStep(low), pressureStep(low)),
         dryAdiabats |-> AdiabatFamily(theta0Values(low), adiabatStep(low)),
         isobars     |-> IsobarFamily]]

\* the isobars drawn at the levels of the sounding, not at the standard levels
createTemperatureChart_atLevels(data, low) ==
    [tempTrace     |-> [x |-> Map(data.temperature,
                                  LAMBDA t, i : SkewX(t, At(data.pressure, i))),
                        y |-> data.pressure],
     dewpointTrace |-> [x |-> Map(data.dewpoint,
                                  LAMBDA t, i : SkewX(t, At(data.pressure, i))),
                        y |-> data.pressure],
     isotherms     |-> backgroundGrid[low].isotherms,
     dryAdiabats   |-> backgroundGrid[low].dryAdiabats,
     isobars       |-> [k \in 1..Len(data.pressure) |-> IsobarLine(data.pressure[k])]]

\* the profile taken from the signals as they are at the call
createTemperatureChart_reclassifying(data, low) ==
    LET atCall == ClassifyDevice(innerWidth, hardwareConcurrency, userAgent)
    IN  [tempTrace     |-> [x |-> Map(data.temperature,
                                      LAMBDA t, i : SkewX(t, At(data.pressure, i))),
                            y |-> data.pressure],
         dewpointTrace |-> [x |-> Map(data.dewpoint,
                                      LAMBDA t, i : SkewX(t, At(data.pressure, i))),
                            y |-> data.pressure],
         isotherms     |-> backgroundGrid[atCall].isotherms,
         dryAdiabats   |-> backgroundGrid[atCall].dryAdiabats,
         isobars       |-> backgroundGrid[atCall].isobars]

\* the traces handed to Plotly.newPlot('temp-chart', ...), by family
createTemperatureChart(data, low) ==
    [tempTrace     |-> [x |-> Map(data.temperature,
                                  LAMBDA t, i : SkewX(t, At(data.pressure, i))),
                        y |-> data.pressure],
     dewpointTrace |-> [x |-> Map(data.dewpoint,
                                  LAMBDA t, i : SkewX(t, At(data.pressure, i))),
                        y |-> data.pressure],
     isotherms     |-> backgroundGrid[low].isotherms,
     dryAdiabats   |-> backgroundGrid[low].dryAdiabats,
     isobars       |-> backgroundGrid[low].isobars]

(***************************************************************************)
(* createWindChart                                                         *)
(***************************************************************************)
\* tan((k + 1/2) degrees) * 10000 for k = 0..44: the octant thresholds that
\* resolve an arctangent to the nearest whole degree
TanTable ==
    <<87, 262, 437, 612, 787, 963, 1139, 1317, 1495, 1673, 1853, 2035, 2217,
      2401, 2586, 2773, 2962, 3153, 3346, 3541, 3739, 3939, 4142, 4348, 4557,
      4770, 4986, 5206, 5430, 5658, 5890, 6128, 6371, 6619, 6873, 7133, 7400,
      7673, 7954, 8243, 8541, 8847, 9163, 9490, 9827>>

\* atan(a / b) in whole degrees for 0 <= a <= b, b > 0
OctantDegrees(a, b) == Cardinality({k \in 1..45 : a * 10000 >= TanTable[k] * b})

\* Math.atan2(y, x) * 180 / Math.PI, to the nearest whole degree, in
\* -180..180; atan2(0, 0) is 0 and atan2(0, x) is 180 for x < 0
Atan2Degrees(y, x) ==
    IF ~(IsNum(y) /\ IsNum(x)) THEN NaN
    ELSE LET ay == IF y < 0 THEN 0 - y ELSE y
             ax == IF x < 0 THEN 0 - x ELSE x
             r  == IF ay = 0 /\ ax = 0 THEN 0
                   ELSE IF ay <= ax THEN OctantDegrees(ay, ax)
                   ELSE 90 - OctantDegrees(ax, ay)
             h  == IF x < 0 THEN 180 - r ELSE r
         IN  Num(IF y < 0 THEN 0 - h ELSE h)

\* sin(k degrees) for k = 0..90, rounded to the grid
SinTable ==
    <<0, 2, 3, 5, 7, 9, 10, 12, 14, 16, 17, 19, 21, 22, 24, 26, 28, 29, 31,
      33, 34, 36, 37, 39, 41, 42, 44, 45, 47, 48, 50, 52, 53, 54, 56, 57, 59,
      60, 62, 63, 64, 66, 67, 68, 69, 71, 72, 73, 74, 75, 77, 78, 79, 80, 81,
      82, 83, 84, 85, 86, 87, 87, 88, 89, 90, 91, 91, 92, 93, 93, 94, 95, 95,
      96, 96, 97, 97, 97, 98, 98, 98, 99, 99, 99, 99, 100, 100, 100, 100, 100,
      100>>

\* Math.sin(dir * Math.PI / 180) for a direction dir in degrees
SinDegrees(dir) ==
    IF ~IsNum(dir) THEN NaN
    ELSE LET k == (dir \div SCALE) % 360
         IN  IF k <= 90 THEN SinTable[k + 1]
             ELSE IF k <= 180 THEN SinTable[180 - k + 1]
             ELSE IF k <= 270 THEN 0 - SinTable[k - 180 + 1]
             ELSE 0 - SinTable[360 - k + 1]

\* Math.cos(dir * Math.PI / 180)
CosDegrees(dir) == IF ~IsNum(dir) THEN NaN ELSE SinDegrees(dir + Num(90))

\* Math.sqrt(u * u + v * v)
WindSpeedOf(u, v) == MathSqrt(Add(Mul(u, u), Mul(v, v)))

\* the sum left unreduced
WindDirectionOf_noWrap(u, v) == Add(Atan2Degrees(u, v), Num(180))

\* the arguments of atan2 exchanged
WindDirectionOf_swapped(u, v) ==
    Rem(Add(Atan2Degrees(v, u), Num(180)), Num(360))

\* (Math.atan2(u, v) * 180 / Math.PI + 180) % 360
WindDirectionOf(u, v) == Rem(Add(Atan2Degrees(u, v), Num(180)), Num(360))

\* the arrays filled by the loop over data.u_wind
windSpeedArr(data) ==
    [k \in 1..Len(data.u_wind) |->
        WindSpeedOf(At(data.u_wind, k - 1), At(data.v_wind, k - 1))]

windDirectionArr(data) ==
    [k \in 1..Len(data.u_wind) |->
        WindDirectionOf(At(data.u_wind, k - 1), At(data.v_wind, k - 1))]

\* the quotient rounded up
barbInterval_ceil(n) == MathMax(Num(1), Num((n + 19) \div 20)) \div SCALE

\* Math.max(1, Math.floor(data.pressure.length / 20)), as a loop increment
barbInterval(n) == MathMax(Num(1), MathFloor(Div(Num(n), Num(20)))) \div SCALE

\* the indices visited by for (i = 0; i < n; i += barbInterval)
RECURSIVE BarbIndices(_, _, _)
BarbIndices(i, n, step) ==
    IF i < n THEN <<i>> \o BarbIndices(i + step, n, step) ELSE <<>>

numFlagsOf(speed) == MathFloor(Div(speed, Num(50)))

\* the speed of the flags not taken off
numBarbsOf_total(speed) == MathFloor(Div(speed, Num(10)))

numBarbsOf(speed) ==
    MathFloor(Div(Sub(speed, Mul(numFlagsOf(speed), Num(50))), Num(10)))

\* the filled pennants of one glyph: currentPos starts at pos, steps by -0.15
RECURSIVE FlagShapes(_, _, _, _, _)
FlagShapes(f, pos, x1, dir, p) ==
    IF ~Less(0, f) THEN <<>>
    ELSE LET barbX == Mul(x1, pos)
             flagX == Sub(barbX, Mul(Num(3), CosDegrees(dir)))
         IN  <<[x     |-> <<barbX, flagX, Sub(barbX, Mul(Dec(15, 10), SinDegrees(dir)))>>,
                y     |-> <<p, p, p>>,
                fill  |-> "toself",
                width |-> Num(1)]>>
             \o FlagShapes(f - Num(1), Sub(pos, Dec(15, 100)), x1, dir, p)

\* the short ticks of one glyph: currentPos goes on from pos, steps by -0.1
RECURSIVE BarbTicks(_, _, _, _, _)
BarbTicks(b, pos, x1, dir, p) ==
    IF ~Less(0, b) THEN <<>>
    ELSE LET barbX == Mul(x1, pos)
             pX    == Sub(barbX, Mul(Num(2), CosDegrees(dir)))
         IN  <<[x     |-> <<barbX, pX>>,
                y     |-> <<p, p>>,
                fill  |-> "none",
                width |-> Dec(15, 10)]>>
             \o BarbTicks(b - Num(1), Sub(pos, Dec(1, 10)), x1, dir, p)

\* the length left uncapped
barbLengthOf_uncapped(speed) == Div(speed, Num(5))

\* Math.min(speed / 5, 15)
barbLengthOf(speed) == MathMin(Div(speed, Num(5)), Num(15))

\* currentPos started again at 0.7 for the ticks
BarbGlyph_restarted(speed, dir, p) ==
    LET barbLength == barbLengthOf(speed)
        x1         == Mul(Sub(0, barbLength), SinDegrees(dir))
    IN  <<[x |-> <<0, x1>>, y |-> <<p, p>>, fill |-> "none", width |-> Num(2)]>>
        \o FlagShapes(numFlagsOf(speed), Dec(7, 10), x1, dir, p)
        \o BarbTicks(numBarbsOf(speed), Dec(7, 10), x1, dir, p)

\* the polylines pushed to windBarbs for level i: shaft, flags, ticks
BarbGlyph(speed, dir, p) ==
    LET barbLength == barbLengthOf(speed)
        x1         == Mul(Sub(0, barbLength), SinDegrees(dir))
        numFlags   == numFlagsOf(speed)
        numBarbs   == numBarbsOf(speed)
        flagsEnd   == IF IsNum(numFlags)
                      THEN Sub(Dec(7, 10), Mul(numFlags, Dec(15, 100)))
                      ELSE Dec(7, 10)
    IN  <<[x |-> <<0, x1>>, y |-> <<p, p>>, fill |-> "none", width |-> Num(2)]>>
        \o FlagShapes(numFlags, Dec(7, 10), x1, dir, p)
        \o BarbTicks(numBarbs, flagsEnd, x1, dir, p)

\* the loop over the selected levels, reading windSpeed, windDirection and
\* data.pressure at each
RECURSIVE BarbLoop(_, _, _, _)
BarbLoop(windSpeed, windDirection, pressure, indices) ==
    IF indices = <<>> THEN <<>>
    ELSE LET i == Head(indices)
         IN  BarbGlyph(At(windSpeed, i), At(windDirection, i), At(pressure, i))
             \o BarbLoop(windSpeed, windDirection, pressure, Tail(indices))

selectedLevels(data) ==
    BarbIndices(0, Len(data.pressure), barbInterval(Len(data.pressure)))

\* speed.toFixed(1) on a level whose windSpeed entry is undefined throws
WindChartThrows(data) ==
    \E k \in 1..Len(selectedLevels(data)) :
        selectedLevels(data)[k] >= Len(data.u_wind)

\* windBarbs kept across calls: the new glyphs are pushed after the old ones
createWindChart_sharedBarbs(data) ==
    LET windSpeed     == windSpeedArr(data)
        windDirection == windDirectionArr(data)
    IN  [windSpeedTrace |-> [x |-> windSpeed, y |-> data.pressure],
         windDirection  |-> windDirection,
         windBarbs      |-> windChart.windBarbs
                            \o BarbLoop(windSpeed, windDirection, data.pressure,
                                        selectedLevels(data))]

\* the traces handed to Plotly.newPlot('wind-chart', ...)
createWindChart(data) ==
    LET windSpeed     == windSpeedArr(data)
        windDirection == windDirectionArr(data)
    IN  [windSpeedTrace |-> [x |-> windSpeed, y |-> data.pressure],
         windDirection  |-> windDirection,
         windBarbs      |-> BarbLoop(windSpeed, windDirection, data.pressure,
                                     selectedLevels(data))]

(***************************************************************************)
(* createDataTable                                                         *)
(***************************************************************************)
\* x.toFixed(1) and x.toFixed(0), kept as the Number the digits denote:
\* rounded to a multiple of unit, halves away from zero
ToFixed(x, unit) ==
    IF ~IsNum(x) THEN NaN
    ELSE IF x >= 0 THEN ((2 * x + unit) \div (2 * unit)) * unit
    ELSE 0 - (((2 * (0 - x) + unit) \div (2 * unit)) * unit)

\* data.temperature[i].toFixed or data.dewpoint[i].toFixed on undefined throws
DataTableThrows(data) ==
    \/ Len(data.temperature) < Len(data.pressure)
    \/ Len(data.dewpoint) < Len(data.pressure)

\* the rows appended to #sounding-tbody, one per pressure level
createDataTable(data) ==
    [k \in 1..Len(data.pressure) |->
        LET u == At(data.u_wind, k - 1)
            v == At(data.v_wind, k - 1)
        IN  [pressure    |-> ToFixed(data.pressure[k], Dec(1, 10)),
             temperature |-> ToFixed(At(data.temperature, k - 1), Dec(1, 10)),
             dewpoint    |-> ToFixed(At(data.dewpoint, k - 1), Dec(1, 10)),
             speed       |-> ToFixed(WindSpeedOf(u, v), Dec(1, 10)),
             direction   |-> ToFixed(WindDirectionOf(u, v), Num(1))]]

(***************************************************************************)
(* The aero page: groups of variables and the served page                  *)
(***************************************************************************)
envVars == <<innerWidth, hardwareConcurrency, userAgent>>

formVars == <<stationSelect, dateInput, hourSelect>>

resultVars ==
    <<stationInfo, indicesSection, chartsSection, dataTableSection, tempChart,
      windChart, soundingTable, lastData, builtAtWidth, afterOther,
      latestRequest, shownRequest>>

aeroVars ==
    <<innerWidth, hardwareConcurrency, userAgent, aeroPage, isLowPerformance,
      stationsFetch, stationOptions, stationSelect, dateInput, hourSelect,
      aeroFetches, loadingAero, errorAero, stationInfo, indicesSection,
      chartsSection, dataTableSection, tempChart, windChart, soundingTable,
      lastData, builtAtWidth, afterOther, latestRequest, shownRequest>>

timerVars ==
    <<autoRefreshInterval, countdownInterval, refreshTimers, countdownTimers>>

metarVars ==
    <<now, cleanupDue, selectedAirports, currentFetchController,
      controllersCreated, dataCache, manualBatches, loadingMetar, errorMetar,
      resultSection, autoRefreshPanel, autoRefreshToggle, timerVars,
      autoBatches, lastMetarRaw, shownBatch, cleared, cacheAgeShown>>

archiveVars ==
    <<archivePage, icao, dateRange, archiveRequests, requestsSent,
      loadingArchive, errorArchive, archiveMetarSection, archiveTafSection>>

\* the variables of the pages other than the aero page
otherPages == <<metarVars, archiveVars>>

vars == <<aeroVars, metarVars, archiveVars>>

\* the date the handler computes from new Date(): the day before today
Yesterday == "2024-05-01"

NoError == [shown |-> FALSE, text |-> ""]

\* the empty plots and labels of the served page
EmptyTempChart ==
    [tempTrace |-> [x |-> <<>>, y |-> <<>>], dewpointTrace |-> [x |-> <<>>, y |-> <<>>],
     isotherms |-> <<>>, dryAdiabats |-> <<>>, isobars |-> <<>>]

EmptyWindChart ==
    [windSpeedTrace |-> [x |-> <<>>, y |-> <<>>], windDirection |-> <<>>,
     windBarbs |-> <<>>]

EmptyStationInfo ==
    [shown |-> FALSE, title |-> <<>>, date |-> "", hour |-> "", levels |-> 0,
     temp |-> undefined]

\* the state of the served page in environment env, before DOMContentLoaded
AeroInit(env) ==
    /\ innerWidth = env.innerWidth
    /\ hardwareConcurrency = env.hardwareConcurrency
    /\ userAgent = env.userAgent
    /\ aeroPage = "loading"
    /\ isLowPerformance = FALSE
    /\ stationsFetch = FALSE
    /\ stationOptions = {}
    /\ stationSelect = ""
    /\ dateInput = ""
    /\ hourSelect = "00"
    /\ aeroFetches = <<>>
    /\ loadingAero = FALSE
    /\ errorAero = NoError
    /\ stationInfo = EmptyStationInfo
    /\ indicesSection = FALSE
    /\ chartsSection = FALSE
    /\ dataTableSection = FALSE
    /\ tempChart = EmptyTempChart
    /\ windChart = EmptyWindChart
    /\ soundingTable = <<>>
    /\ lastData = <<>>
    /\ builtAtWidth = 0
    /\ afterOther = FALSE
    /\ latestRequest = <<>>
    /\ shownRequest = <<>>

(***************************************************************************)
(* The aero page: handlers                                                 *)
(***************************************************************************)
showError(message) == errorAero' = [shown |-> TRUE, text |-> message]

hideError == errorAero' = [errorAero EXCEPT !.shown = FALSE]

\* hideResults: the four sections are hidden, their content is kept
hideResults ==
    /\ stationInfo' = [stationInfo EXCEPT !.shown = FALSE]
    /\ indicesSection' = FALSE
    /\ chartsSection' = FALSE
    /\ dataTableSection' = FALSE

\* the DOMContentLoaded handler of the aero page
DOMContentLoaded ==
    /\ UNCHANGED otherPages
    /\ aeroPage = "loading"
    /\ aeroPage' = "ready"
    /\ isLowPerformance' = ClassifyDevice(innerWidth, hardwareConcurrency, userAgent)
    /\ dateInput' = Yesterday
    /\ stationsFetch' = TRUE
    /\ UNCHANGED <<envVars, stationOptions, stationSelect, hourSelect, aeroFetches,
                   loadingAero, errorAero, resultVars>>

\* loadStations, response with data.success: the select is filled
StationsLoaded(stations) ==
    /\ UNCHANGED otherPages
    /\ stationsFetch
    /\ stationsFetch' = FALSE
    /\ stationOptions' = stations
    /\ stationSelect' = ""
    /\ UNCHANGED <<envVars, aeroPage, isLowPerformance, dateInput, hourSelect,
                   aeroFetches, loadingAero, errorAero, resultVars>>

\* loadStations, response without data.success, or a rejected request
StationsFailed(message) ==
    /\ UNCHANGED otherPages
    /\ stationsFetch
    /\ stationsFetch' = FALSE
    /\ showError(message)
    /\ UNCHANGED <<envVars, aeroPage, isLowPerformance, stationOptions, formVars,
                   aeroFetches, loadingAero, resultVars>>

\* the user picks an option of #station-select
SelectStation(code) ==
    /\ UNCHANGED otherPages
    /\ aeroPage = "ready"
    /\ code \in stationOptions \cup {""}
    /\ stationSelect' = code
    /\ UNCHANGED <<envVars, aeroPage, isLowPerformance, stationsFetch,
                   stationOptions, dateInput, hourSelect, aeroFetches,
                   loadingAero, errorAero, resultVars>>

\* the user edits #date-input
ChangeDate(date) ==
    /\ UNCHANGED otherPages
    /\ aeroPage = "ready"
    /\ dateInput' = date
    /\ UNCHANGED <<envVars, aeroPage, isLowPerformance, stationsFetch,
                   stationOptions, stationSelect, hourSelect, aeroFetches,
                   loadingAero, errorAero, resultVars>>

\* the user picks an option of #hour-select
ChangeHour(hour) ==
    /\ UNCHANGED otherPages
    /\ aeroPage = "ready"
    /\ hourSelect' = hour
    /\ UNCHANGED <<envVars, aeroPage, isLowPerformance, stationsFetch,
                   stationOptions, stationSelect, dateInput, aeroFetches,
                   loadingAero, errorAero, resultVars>>

\* the browser window is resized
Resize(width) ==
    /\ UNCHANGED otherPages
    /\ innerWidth' = width
    /\ UNCHANGED <<hardwareConcurrency, userAgent, aeroPage, isLowPerformance,
                   stationsFetch, stationOptions, formVars, aeroFetches,
                   loadingAero, errorAero, resultVars>>

\* buildDiagram, the click handler of #build-btn; at most maxPending requests
\* are kept outstanding.  The texts of the messages are given in English.
buildDiagram(maxPending) ==
    /\ UNCHANGED otherPages
    /\ aeroPage = "ready"
    /\ IF stationSelect = ""
       THEN /\ showError("select a station")
            /\ UNCHANGED <<aeroFetches, loadingAero, resultVars>>
       ELSE IF dateInput = ""
       THEN /\ showError("select a date")
            /\ UNCHANGED <<aeroFetches, loadingAero, resultVars>>
       ELSE /\ Len(aeroFetches) < maxPending
            /\ hideError
            /\ hideResults
            /\ loadingAero' = TRUE
            /\ aeroFetches' = Append(aeroFetches,
                   [station_id |-> stationSelect, date |-> dateInput,
                    hour |-> hourSelect])
            /\ latestRequest' =
                  <<[station_id |-> stationSelect, date |-> dateInput,
                     hour |-> hourSelect]>>
            /\ UNCHANGED <<tempChart, windChart, soundingTable, lastData,
                           builtAtWidth, afterOther, shownRequest>>
    /\ UNCHANGED <<envVars, aeroPage, isLowPerformance, stationsFetch,
                   stationOptions, formVars>>

\* aeroFetches without its k-th request
Settle(k) == [j \in 1..(Len(aeroFetches) - 1) |->
                 IF j < k THEN aeroFetches[j] ELSE aeroFetches[j + 1]]

\* where displayResults(data) ends: "done", or the statement that throws
DisplayEnd(data) ==
    IF Len(data.temperature) = 0 THEN "info-temp"
    ELSE IF WindChartThrows(data) THEN "wind-chart"
    ELSE IF DataTableThrows(data) THEN "data-table"
    ELSE "done"

\* the response of the k-th request arrives with data.success and payload
\* data: hideLoading, then displayResults(data); an exception thrown by
\* displayResults is caught by the .catch of the promise chain
FetchSucceeds(k, data) ==
    /\ UNCHANGED otherPages
    /\ k \in 1..Len(aeroFetches)
    /\ aeroFetches' = Settle(k)
    /\ loadingAero' = FALSE
    /\ lastData' = <<data>>
    /\ builtAtWidth' = innerWidth
    /\ afterOther' = (lastData # <<>> /\ lastData # <<data>>)
    /\ shownRequest' = <<aeroFetches[k]>>
    /\ UNCHANGED latestRequest
    /\ LET end == DisplayEnd(data)
       IN  /\ stationInfo' =
                 [shown  |-> IF end = "info-temp" THEN stationInfo.shown ELSE TRUE,
                  title  |-> <<data.station_id, data.station_name>>,
                  date   |-> dateInput,
                  hour   |-> hourSelect,
                  levels |-> Len(data.pressure),
                  temp   |-> IF end = "info-temp" THEN stationInfo.temp
                             ELSE ToFixed(data.temperature[1], Dec(1, 10))]
           /\ indicesSection' =
                 IF end # "info-temp" /\ data.indices THEN TRUE ELSE indicesSection
           /\ tempChart' =
                 IF end = "info-temp" THEN tempChart
                 ELSE createTemperatureChart(data, isLowPerformance)
           /\ windChart' =
                 IF end \in {"info-temp", "wind-chart"} THEN windChart
                 ELSE createWindChart(data)
           /\ soundingTable' =
                 IF end = "done" THEN createDataTable(data) ELSE soundingTable
           /\ chartsSection' = IF end = "done" THEN TRUE ELSE chartsSection
           /\ dataTableSection' = IF end = "done" THEN TRUE ELSE dataTableSection
           /\ IF end = "done" THEN UNCHANGED errorAero
              ELSE showError("connection error: TypeError")
    /\ UNCHANGED <<envVars, aeroPage, isLowPerformance, stationsFetch,
                   stationOptions, formVars>>

\* the response of the k-th request arrives without data.success, or the
\* request is rejected: hideLoading, showError
FetchFails(k, message) ==
    /\ UNCHANGED otherPages
    /\ k \in 1..Len(aeroFetches)
    /\ aeroFetches' = Settle(k)
    /\ loadingAero' = FALSE
    /\ showError(message)
    /\ UNCHANGED <<envVars, aeroPage, isLowPerformance, stationsFetch,
                   stationOptions, formVars, resultVars>>

\* clearAll, the click handler of #clear-aero-btn
clearAll ==
    /\ UNCHANGED otherPages
    /\ aeroPage = "ready"
    /\ stationSelect' = ""
    /\ dateInput' = Yesterday
    /\ hourSelect' = "00"
    /\ hideError
    /\ hideResults
    /\ UNCHANGED <<envVars, aeroPage, isLowPerformance, stationsFetch,
                   stationOptions, aeroFetches, loadingAero, tempChart,
                   windChart, soundingTable, lastData, builtAtWidth,
                   afterOther, latestRequest, shownRequest>>

(***************************************************************************)
(* Inputs: environments, stations and sounding payloads                    *)
(***************************************************************************)
MaxLevels == 41

NumShapes == 2

MaxPending == 1

MaxSessionLevels == 2

DesktopAgent == {"mozilla", "x11", "linux", "gecko", "firefox"}

AndroidAgent == {"mozilla", "linux", "android", "applewebkit", "chrome", "mobile"}

Environments ==
    [innerWidth : {768, 769}, hardwareConcurrency : {2, 3, undefined},
     userAgent : {DesktopAgent, AndroidAgent}]

Stations == {"27612"}

StationName(code) == "Moscow"

\* wind components (u, v) in km/h: calm, winds along the four cardinal
\* directions of 0.5 to 300 km/h, and oblique winds of 3 to 300 km/h
WindVectors ==
    <<<<Num(0), Num(-10)>>, <<Num(-10), Num(0)>>, <<Num(0), Num(10)>>,
      <<Num(10), Num(0)>>, <<Num(0), Num(0)>>, <<Num(30), Num(40)>>,
      <<Num(-39), Num(-52)>>, <<Num(-150), Num(-200)>>, <<Num(7), Num(-24)>>,
      <<Num(120), Num(-160)>>, <<Dec(-35, 10), Dec(35, 10)>>,
      <<Num(-33), Num(56)>>, <<Dec(5, 10), Num(-3)>>, <<Num(0), Dec(-255, 10)>>,
      <<Num(-120), Num(0)>>, <<Num(0), Num(300)>>, <<Dec(5, 10), Num(0)>>,
      <<Num(-114), Num(-152)>>, <<Num(-180), Num(-240)>>>>

WindAt(i, shape) == WindVectors[((i + 5 * (shape - 1)) % Len(WindVectors)) + 1]

\* a well-formed sounding of n levels: five arrays of length n, pressure
\* strictly decreasing from the surface; shape varies the values
Sounding(n, shape) ==
    [pressure    |-> [k \in 1..n |->
                         Num(1000) + (shape - 1) * Dec(135, 10) - (k - 1) * Num(20)],
     temperature |-> [k \in 1..n |->
                         Dec(152, 10) + (shape - 1) * Dec(73, 10) - (k - 1) * Dec(23, 10)],
     dewpoint    |-> [k \in 1..n |->
                         Dec(107, 10) + (shape - 1) * Dec(133, 10) - (k - 1) * Dec(24, 10)],
     u_wind      |-> [k \in 1..n |-> WindAt(k - 1, shape)[1]],
     v_wind      |-> [k \in 1..n |-> WindAt(k - 1, shape)[2]],
     indices     |-> shape % 2 = 0]

Soundings == {Sounding(n, shape) : n \in 1..MaxLevels, shape \in 1..NumShapes}

\* the soundings served in a page session with several builds
SessionSoundings == {Sounding(n, 2 - (n % 2)) : n \in 1..MaxSessionLevels}

\* the payload the server returns for request req from sounding snd
Payload(req, snd) ==
    [pressure     |-> snd.pressure,
     temperature  |-> snd.temperature,
     dewpoint     |-> snd.dewpoint,
     u_wind       |-> snd.u_wind,
     v_wind       |-> snd.v_wind,
     indices      |-> snd.indices,
     station_id   |-> req.station_id,
     station_name |-> StationName(req.station_id)]

(***************************************************************************)
(* The METAR page: the served page and its data                            *)
(***************************************************************************)
\* the airports the search offers
Airports == {"UUEE", "ULLI"}

\* an entry of selectedAirports; name and runway_headings are only rendered
Airport(code) == [icao |-> code]

\* const CACHE_DURATION = 5 * 60 * 1000, in minutes
CACHE_DURATION == 5

\* the replies of /fetch: two reports, and a reply without data.success
Replies ==
    {[success |-> TRUE, metar |-> "METAR 1"], [success |-> TRUE, metar |-> "METAR 2"],
     [success |-> FALSE, metar |-> ""]}

\* the replies of /fetch in a session of fetches and refreshes
SessionReplies == {[success |-> TRUE, metar |-> "METAR 1"], [success |-> FALSE, metar |-> ""]}

\* no data yet (a promise not resolved, a key not in the map)
NoData == [success |-> FALSE, metar |-> "absent"]

\* dataCache.get(key) is undefined
NoEntry == [data |-> NoData, timestamp |-> -1]

EmptyResultSection == [shown |-> FALSE, header |-> 0, cards |-> <<>>]

\* the state of the page after its DOMContentLoaded handler has run
MetarInit ==
    /\ now = 0
    /\ cleanupDue = FALSE
    /\ selectedAirports = <<>>
    /\ currentFetchController = 0
    /\ controllersCreated = 0
    /\ dataCache = [key \in Airports |-> NoEntry]
    /\ manualBatches = <<>>
    /\ loadingMetar = FALSE
    /\ errorMetar = NoError
    /\ resultSection = EmptyResultSection
    /\ autoRefreshPanel = FALSE
    /\ autoRefreshToggle = FALSE
    /\ autoRefreshInterval = FALSE
    /\ countdownInterval = FALSE
    /\ refreshTimers = 0
    /\ countdownTimers = 0
    /\ autoBatches = <<>>
    /\ lastMetarRaw = [key \in Airports |-> ""]
    /\ shownBatch = 0
    /\ cleared = FALSE
    /\ cacheAgeShown = -1

clockVars == <<now, cleanupDue>>

fetchVars ==
    <<currentFetchController, controllersCreated, manualBatches, loadingMetar>>

toggleVars == <<autoRefreshToggle, timerVars>>

historyVars == <<shownBatch, cleared, cacheAgeShown>>

(***************************************************************************)
(* The METAR page: the list of selected airports                           *)
(***************************************************************************)
showErrorMetar(message) == errorMetar' = [shown |-> TRUE, text |-> message]

hideErrorMetar == errorMetar' = [errorMetar EXCEPT !.shown = FALSE]

\* the ICAO codes of a list of airports
Keys(list) == {list[i].icao : i \in 1..Len(list)}

\* a sequence without its k-th element
Without(seq, k) ==
    [j \in 1..(Len(seq) - 1) |-> IF j < k THEN seq[j] ELSE seq[j + 1]]

\* selectAirport without the check for an airport already in the list
selectAirport_unchecked(airport, maxSelected) ==
    /\ Len(selectedAirports) < maxSelected
    /\ selectedAirports' = Append(selectedAirports, airport)
    /\ UNCHANGED <<clockVars, fetchVars, dataCache, errorMetar, resultSection,
                   autoRefreshPanel, toggleVars, autoBatches, lastMetarRaw,
                   historyVars, aeroVars, archiveVars>>

\* selectAirport(airport), called for a clicked search result; the list is
\* kept to at most maxSelected entries
selectAirport(airport, maxSelected) ==
    /\ IF \E i \in 1..Len(selectedAirports) : selectedAirports[i].icao = airport.icao
       THEN /\ showErrorMetar("already added")
            /\ UNCHANGED selectedAirports
       ELSE /\ Len(selectedAirports) < maxSelected
            /\ selectedAirports' = Append(selectedAirports, airport)
            /\ UNCHANGED errorMetar
    /\ UNCHANGED <<clockVars, fetchVars, dataCache, resultSection,
                   autoRefreshPanel, toggleVars, autoBatches, lastMetarRaw,
                   historyVars, aeroVars, archiveVars>>

\* removeAirport(icao), called for the remove button of a listed airport
removeAirport(code) ==
    /\ code \in Keys(selectedAirports)
    /\ selectedAirports' = SelectSeq(selectedAirports, LAMBDA a : a.icao # code)
    /\ UNCHANGED <<clockVars, fetchVars, dataCache, errorMetar, resultSection,
                   autoRefreshPanel, toggleVars, autoBatches, lastMetarRaw,
                   historyVars, aeroVars, archiveVars>>

(***************************************************************************)
(* The METAR page: auto-refresh timers                                     *)
(***************************************************************************)
\* stopAutoRefresh that forgets the countdown timer
stopAutoRefresh_refreshOnly ==
    /\ autoRefreshInterval' = FALSE
    /\ refreshTimers' = IF autoRefreshInterval THEN refreshTimers - 1 ELSE refreshTimers
    /\ UNCHANGED <<countdownInterval, countdownTimers>>

\* stopAutoRefresh: clearInterval of each handle that is not null
stopAutoRefresh ==
    /\ autoRefreshInterval' = FALSE
    /\ refreshTimers' = IF autoRefreshInterval THEN refreshTimers - 1 ELSE refreshTimers
    /\ countdownInterval' = FALSE
    /\ countdownTimers' =
          IF countdownInterval THEN countdownTimers - 1 ELSE countdownTimers

\* startAutoRefresh: two setInterval calls unless no airport is selected
startAutoRefresh ==
    IF Len(selectedAirports) = 0
    THEN /\ autoRefreshToggle' = FALSE
         /\ showErrorMetar("select an airport first")
         /\ UNCHANGED timerVars
    ELSE /\ autoRefreshToggle' = TRUE
         /\ countdownInterval' = TRUE
         /\ countdownTimers' = countdownTimers + 1
         /\ autoRefreshInterval' = TRUE
         /\ refreshTimers' = refreshTimers + 1
         /\ UNCHANGED errorMetar

\* the change listener of #auto-refresh-toggle: the user flips the checkbox
autoRefreshToggleChange ==
    /\ IF ~autoRefreshToggle
       THEN startAutoRefresh
       ELSE /\ autoRefreshToggle' = FALSE
            /\ stopAutoRefresh
            /\ UNCHANGED errorMetar
    /\ UNCHANGED <<clockVars, selectedAirports, fetchVars, dataCache,
                   resultSection, autoRefreshPanel, autoBatches, lastMetarRaw,
                   historyVars, aeroVars, archiveVars>>

\* the part of clearAll and window.fetchMetarTaf that stops auto-refresh
StopIfChecked ==
    IF autoRefreshToggle
    THEN /\ autoRefreshToggle' = FALSE
         /\ stopAutoRefresh
    ELSE UNCHANGED toggleVars

\* clearAll, the click handler of #clear-btn
clearAllMetar ==
    /\ StopIfChecked
    /\ autoRefreshPanel' = FALSE
    /\ selectedAirports' = <<>>
    /\ resultSection' = EmptyResultSection
    /\ hideErrorMetar
    /\ lastMetarRaw' = [key \in Airports |-> ""]
    /\ cleared' = TRUE
    /\ UNCHANGED <<clockVars, fetchVars, dataCache, autoBatches, shownBatch,
                   cacheAgeShown, aeroVars, archiveVars>>

(***************************************************************************)
(* The METAR page: manual fetch                                            *)
(***************************************************************************)
\* the cache test that also accepts an entry exactly CACHE_DURATION old
CacheFresh_inclusive(cached, time) ==
    cached.timestamp >= 0 /\ time - cached.timestamp <= CACHE_DURATION

\* cached && Date.now() - cached.timestamp < CACHE_DURATION
CacheFresh(cached, time) ==
    cached.timestamp >= 0 /\ time - cached.timestamp < CACHE_DURATION

\* the array Promise.all resolves to: { airport, data } per airport
ResultsOf(airports, results) ==
    [i \in 1..Len(airports) |->
        [airport |-> airports[i], data |-> results[airports[i].icao]]]

\* the cards appended by displayMultipleAirportsResults: one per result
\* with data.success
CardsOf(results) ==
    LET ok == SelectSeq(results, LAMBDA r : r.data.success)
    IN  [i \in 1..Len(ok) |-> [icao |-> ok[i].airport.icao, metar |-> ok[i].data.metar]]

\* lastMetarRaw after the results with data.success and data.metar were
\* recorded in it
RawAfter(raw, results) ==
    [key \in Airports |->
        LET at == {i \in 1..Len(results) :
                      /\ results[i].airport.icao = key
                      /\ results[i].data.success
                      /\ results[i].data.metar # ""}
        IN  IF at = {} THEN raw[key]
            ELSE results[CHOOSE i \in at : \A j \in at : j <= i].data.metar]

\* displayMultipleAirportsResults(results); error is #error-message as the
\* caller left it
displayMultipleAirportsResults(results, error) ==
    IF Len(results) = 0
    THEN /\ resultSection' = [resultSection EXCEPT !.header = 0, !.cards = <<>>]
         /\ showErrorMetar("no data")
         /\ UNCHANGED lastMetarRaw
    ELSE /\ resultSection' =
               [shown |-> TRUE, header |-> Len(results), cards |-> CardsOf(results)]
         /\ lastMetarRaw' = RawAfter(lastMetarRaw, results)
         /\ errorMetar' = error

\* the greatest age now of the results that came from the cache (-1: none)
CacheAge(cachedAt) ==
    LET ages == {now - cachedAt[key] : key \in {c \in Airports : cachedAt[c] >= 0}}
    IN  IF ages = {} THEN -1 ELSE CHOOSE a \in ages : \A c \in ages : c <= a

\* the .then callback of the Promise.all of batch: every promise resolved
BatchResolved(batch, results, error) ==
    /\ loadingMetar' = FALSE
    /\ currentFetchController' = 0
    /\ displayMultipleAirportsResults(ResultsOf(batch.airports, results), error)
    /\ autoRefreshPanel' = TRUE
    /\ shownBatch' = batch.controller
    /\ cacheAgeShown' = CacheAge(batch.cachedAt)

\* fetchMetarTaf; at most maxControllers AbortControllers are created.
\* abort() rejects the requests of the batch of currentFetchController at
\* once, so the .catch of that batch (hideLoading, currentFetchController =
\* null, no error for an AbortError) runs when the handler returns, before
\* any other event; so does the .then of a new batch whose promises are all
\* resolved from the cache.
fetchMetarTaf(maxControllers) ==
    IF Len(selectedAirports) = 0
    THEN /\ showErrorMetar("select an airport")
         /\ UNCHANGED <<fetchVars, resultSection, autoRefreshPanel, lastMetarRaw,
                        historyVars>>
    ELSE LET keys == Keys(selectedAirports)
             hits == {key \in keys : CacheFresh(dataCache[key], now)}
             kept ==
                 SelectSeq(manualBatches,
                           LAMBDA old : old.controller # currentFetchController)
             batch ==
                 [controller |-> controllersCreated + 1,
                  airports   |-> selectedAirports,
                  pending    |-> keys \ hits,
                  results    |-> [key \in Airports |->
                                    IF key \in hits THEN dataCache[key].data
                                    ELSE NoData],
                  cachedAt   |-> [key \in Airports |->
                                    IF key \in hits THEN dataCache[key].timestamp
                                    ELSE -1],
                  settled    |-> FALSE]
         IN  /\ controllersCreated < maxControllers
             /\ controllersCreated' = batch.controller
             /\ cleared' = FALSE
             /\ IF hits = keys
                THEN /\ manualBatches' = kept
                     /\ BatchResolved(batch, batch.results,
                                      [errorMetar EXCEPT !.shown = FALSE])
                ELSE /\ manualBatches' = Append(kept, batch)
                     /\ currentFetchController' =
                           IF kept = manualBatches THEN batch.controller ELSE 0
                     /\ hideErrorMetar
                     /\ resultSection' = [resultSection EXCEPT !.shown = FALSE]
                     /\ loadingMetar' = (kept = manualBatches)
                     /\ UNCHANGED <<autoRefreshPanel, lastMetarRaw, shownBatch,
                                    cacheAgeShown>>

\* window.fetchMetarTaf, the click handler of #fetch-btn
window_fetchMetarTaf(maxControllers) ==
    /\ StopIfChecked
    /\ fetchMetarTaf(maxControllers)
    /\ UNCHANGED <<clockVars, selectedAirports, dataCache, autoBatches,
                   aeroVars, archiveVars>>

\* a /fetch request of batch b, for airport key, is answered with data: the
\* reply is cached, and the .then of Promise.all runs if it was the last one
MetarFetchSucceeds(b, key, data) ==
    /\ b \in 1..Len(manualBatches)
    /\ key \in manualBatches[b].pending
    /\ dataCache' = [dataCache EXCEPT ![key] = [data |-> data, timestamp |-> now]]
    /\ LET batch == manualBatches[b]
           rest == batch.pending \ {key}
           results == [batch.results EXCEPT ![key] = data]
       IN  IF rest = {} /\ ~batch.settled
           THEN /\ manualBatches' = Without(manualBatches, b)
                /\ BatchResolved(batch, results, errorMetar)
           ELSE /\ manualBatches' =
                      IF rest = {} THEN Without(manualBatches, b)
                      ELSE [manualBatches EXCEPT ![b].pending = rest,
                                                 ![b].results = results]
                /\ UNCHANGED <<currentFetchController, loadingMetar, errorMetar,
                               resultSection, autoRefreshPanel, lastMetarRaw,
                               shownBatch, cacheAgeShown>>
    /\ UNCHANGED <<clockVars, selectedAirports, controllersCreated, toggleVars,
                   autoBatches, cleared, aeroVars, archiveVars>>

\* a /fetch request of batch b is rejected by the network: the .catch of
\* Promise.all runs unless it ran before
MetarFetchFails(b, key) ==
    /\ b \in 1..Len(manualBatches)
    /\ key \in manualBatches[b].pending
    /\ LET batch == manualBatches[b]
           rest == batch.pending \ {key}
       IN  /\ manualBatches' =
                 IF rest = {} THEN Without(manualBatches, b)
                 ELSE [manualBatches EXCEPT ![b].pending = rest,
                                            ![b].settled = TRUE]
           /\ IF batch.settled
              THEN UNCHANGED <<currentFetchController, loadingMetar, errorMetar>>
              ELSE /\ loadingMetar' = FALSE
                   /\ currentFetchController' = 0
                   /\ showErrorMetar("connection error")
    /\ UNCHANGED <<clockVars, selectedAirports, controllersCreated, dataCache,
                   resultSection, autoRefreshPanel, toggleVars, autoBatches,
                   lastMetarRaw, historyVars, aeroVars, archiveVars>>

(***************************************************************************)
(* The METAR page: the clock and the cleanup timer of the cache            *)
(***************************************************************************)
\* a minute passes, up to maxTime; the cleanup timer becomes due
TimePasses(maxTime) ==
    /\ now < maxTime
    /\ now' = now + 1
    /\ cleanupDue' = TRUE
    /\ UNCHANGED <<selectedAirports, fetchVars, dataCache, errorMetar,
                   resultSection, autoRefreshPanel, toggleVars, autoBatches,
                   lastMetarRaw, historyVars, aeroVars, archiveVars>>

\* the callback of setInterval(..., 60000): entries older than
\* CACHE_DURATION are deleted
cleanupCache ==
    /\ cleanupDue
    /\ cleanupDue' = FALSE
    /\ dataCache' =
          [key \in Airports |->
              IF dataCache[key].timestamp >= 0
                 /\ now - dataCache[key].timestamp > CACHE_DURATION
              THEN NoEntry ELSE dataCache[key]]
    /\ UNCHANGED <<now, selectedAirports, fetchVars, errorMetar, resultSection,
                   autoRefreshPanel, toggleVars, autoBatches, lastMetarRaw,
                   historyVars, aeroVars, archiveVars>>

(***************************************************************************)
(* The METAR page: auto-refresh                                            *)
(***************************************************************************)
\* performAutoRefresh, the callback of an active refresh timer; at most
\* maxPending refresh batches are kept in flight
performAutoRefresh(maxPending) ==
    /\ refreshTimers > 0
    /\ IF Len(selectedAirports) = 0
       THEN /\ stopAutoRefresh
            /\ autoRefreshToggle' = FALSE
            /\ UNCHANGED autoBatches
       ELSE /\ Len(autoBatches) < maxPending
            /\ autoBatches' = Append(autoBatches, [airports |-> selectedAirports])
            /\ UNCHANGED toggleVars
    /\ UNCHANGED <<clockVars, selectedAirports, fetchVars, dataCache, errorMetar,
                   resultSection, autoRefreshPanel, lastMetarRaw, historyVars,
                   aeroVars, archiveVars>>

\* every request of refresh batch b is answered, airport key with
\* replies[key]: the results are displayed if a METAR differs from lastMetarRaw
AutoRefreshSucceeds(b, replies) ==
    /\ b \in 1..Len(autoBatches)
    /\ autoBatches' = Without(autoBatches, b)
    /\ LET results == ResultsOf(autoBatches[b].airports, replies)
           hasChanges ==
               \E i \in 1..Len(results) :
                   /\ results[i].data.success
                   /\ results[i].data.metar # ""
                   /\ lastMetarRaw[results[i].airport.icao] # results[i].data.metar
       IN  IF hasChanges
           THEN /\ displayMultipleAirportsResults(results, errorMetar)
                /\ shownBatch' = 0
           ELSE UNCHANGED <<resultSection, lastMetarRaw, errorMetar, shownBatch>>
    /\ UNCHANGED <<clockVars, selectedAirports, fetchVars, dataCache,
                   autoRefreshPanel, toggleVars, cleared, cacheAgeShown,
                   aeroVars, archiveVars>>

\* a request of refresh batch b is rejected: only the countdown is reset
AutoRefreshFails(b) ==
    /\ b \in 1..Len(autoBatches)
    /\ autoBatches' = Without(autoBatches, b)
    /\ UNCHANGED <<clockVars, selectedAirports, fetchVars, dataCache, errorMetar,
                   resultSection, autoRefreshPanel, toggleVars, lastMetarRaw,
                   historyVars, aeroVars, archiveVars>>

(***************************************************************************)
(* The archive page                                                        *)
(***************************************************************************)
\* the state of the served page whose URL has the icao parameter param ("" if
\* it has none), before DOMContentLoaded
ArchiveInit(param) ==
    /\ archivePage = "loading"
    /\ icao = param
    /\ dateRange = ""
    /\ archiveRequests = {}
    /\ requestsSent = 0
    /\ loadingArchive = FALSE
    /\ errorArchive = NoError
    /\ archiveMetarSection = FALSE
    /\ archiveTafSection = FALSE

\* loadArchive: the sections and the error are hidden, the loading indicator
\* is shown, and the two requests are sent for the period range
loadArchive(range) ==
    /\ archiveMetarSection' = FALSE
    /\ archiveTafSection' = FALSE
    /\ errorArchive' = [errorArchive EXCEPT !.shown = FALSE]
    /\ loadingArchive' = TRUE
    /\ archiveRequests' = archiveRequests \cup
          {[url |-> "/metar-archive", id |-> requestsSent + 1, range |-> range],
           [url |-> "/taf-archive", id |-> requestsSent + 2, range |-> range]}
    /\ requestsSent' = requestsSent + 2

\* the DOMContentLoaded handler of the archive page
ArchiveLoaded ==
    /\ archivePage = "loading"
    /\ archivePage' = "ready"
    /\ IF icao = ""
       THEN /\ errorArchive' = [shown |-> TRUE, text |-> "no ICAO code"]
            /\ UNCHANGED <<dateRange, archiveRequests, requestsSent,
                           loadingArchive, archiveMetarSection, archiveTafSection>>
       ELSE /\ dateRange' = "last 24 hours"
            /\ loadArchive("last 24 hours")
    /\ UNCHANGED <<icao, aeroVars, metarVars>>

\* the user edits #date-from or #date-to
ChangeDates ==
    /\ archivePage = "ready"
    /\ dateRange' = "edited"
    /\ UNCHANGED <<archivePage, icao, archiveRequests, requestsSent,
                   loadingArchive, errorArchive, archiveMetarSection,
                   archiveTafSection, aeroVars, metarVars>>

\* the click listener of #load-archive-btn, attached only if icao is given;
\* at most maxCalls calls of loadArchive are made
LoadArchiveClick(maxCalls) ==
    /\ archivePage = "ready"
    /\ icao # ""
    /\ requestsSent < 2 * maxCalls
    /\ loadArchive(dateRange)
    /\ UNCHANGED <<archivePage, icao, dateRange, aeroVars, metarVars>>

\* the click listener of #reset-dates-btn: initializeDates, loadArchive
ResetDatesClick(maxCalls) ==
    /\ archivePage = "ready"
    /\ icao # ""
    /\ requestsSent < 2 * maxCalls
    /\ dateRange' = "last 24 hours"
    /\ loadArchive("last 24 hours")
    /\ UNCHANGED <<archivePage, icao, aeroVars, metarVars>>

\* the /metar-archive request r is answered; history tells whether the reply
\* has data.success and a non-empty data.history
MetarArchiveResponds(r, history) ==
    /\ r \in archiveRequests
    /\ r.url = "/metar-archive"
    /\ archiveRequests' = archiveRequests \ {r}
    /\ archiveMetarSection' = (history \/ archiveMetarSection)
    /\ UNCHANGED <<archivePage, icao, dateRange, requestsSent, loadingArchive,
                   errorArchive, archiveTafSection, aeroVars, metarVars>>

\* the /metar-archive request r is rejected: the error is only logged
MetarArchiveFails(r) ==
    /\ r \in archiveRequests
    /\ r.url = "/metar-archive"
    /\ archiveRequests' = archiveRequests \ {r}
    /\ UNCHANGED <<archivePage, icao, dateRange, requestsSent, loadingArchive,
                   errorArchive, archiveMetarSection, archiveTafSection,
                   aeroVars, metarVars>>

\* the /taf-archive request r is answered: hideLoading, then the table
TafArchiveResponds(r, history) ==
    /\ r \in archiveRequests
    /\ r.url = "/taf-archive"
    /\ archiveRequests' = archiveRequests \ {r}
    /\ loadingArchive' = FALSE
    /\ archiveTafSection' = (history \/ archiveTafSection)
    /\ UNCHANGED <<archivePage, icao, dateRange, requestsSent, errorArchive,
                   archiveMetarSection, aeroVars, metarVars>>

\* the /taf-archive request r is rejected: hideLoading, showError
TafArchiveFails(r) ==
    /\ r \in archiveRequests
    /\ r.url = "/taf-archive"
    /\ archiveRequests' = archiveRequests \ {r}
    /\ loadingArchive' = FALSE
    /\ errorArchive' = [shown |-> TRUE, text |-> "archive error"]
    /\ UNCHANGED <<archivePage, icao, dateRange, requestsSent,
                   archiveMetarSection, archiveTafSection, aeroVars, metarVars>>

(***************************************************************************)
(* Specification of the aero page                                          *)
(***************************************************************************)
Init == (\E env \in Environments : AeroInit(env)) /\ MetarInit /\ ArchiveInit("")

Next ==
    \/ DOMContentLoaded
    \/ StationsLoaded(Stations)
    \/ StationsFailed("stations error")
    \/ \E code \in Stations \cup {""} : SelectStation(code)
    \/ \E width \in {768, 769} : Resize(width)
    \/ buildDiagram(MaxPending)
    \/ \E k \in 1..Len(aeroFetches), snd \in SessionSoundings :
          FetchSucceeds(k, Payload(aeroFetches[k], snd))
    \/ \E k \in 1..Len(aeroFetches) : FetchFails(k, "fetch error")
    \/ clearAll

Spec == Init /\ [][Next]_vars

(***************************************************************************)
(* Specification of one diagram build: the page is ready, one request is   *)
(* outstanding, and its response carries any sounding of the family        *)
(***************************************************************************)
ChartEnvironments ==
    {[innerWidth |-> 768, hardwareConcurrency |-> 8, userAgent |-> DesktopAgent],
     [innerWidth |-> 1280, hardwareConcurrency |-> 8, userAgent |-> DesktopAgent]}

ChartInit ==
    \E env \in ChartEnvironments, code \in Stations :
        /\ innerWidth = env.innerWidth
        /\ hardwareConcurrency = env.hardwareConcurrency
        /\ userAgent = env.userAgent
        /\ aeroPage = "ready"
        /\ isLowPerformance =
              ClassifyDevice(env.innerWidth, env.hardwareConcurrency, env.userAgent)
        /\ stationsFetch = FALSE
        /\ stationOptions = Stations
        /\ stationSelect = code
        /\ dateInput = Yesterday
        /\ hourSelect = "00"
        /\ aeroFetches = <<[station_id |-> code, date |-> Yesterday, hour |-> "00"]>>
        /\ loadingAero = TRUE
        /\ errorAero = NoError
        /\ stationInfo = EmptyStationInfo
        /\ indicesSection = FALSE
        /\ chartsSection = FALSE
        /\ dataTableSection = FALSE
        /\ tempChart = EmptyTempChart
        /\ windChart = EmptyWindChart
        /\ soundingTable = <<>>
    /\ lastData = <<>>
    /\ builtAtWidth = 0
    /\ afterOther = FALSE
    /\ latestRequest = <<[station_id |-> stationSelect, date |-> Yesterday, hour |-> "00"]>>
    /\ shownRequest = <<>>
    /\ MetarInit
    /\ ArchiveInit("")

ChartNext ==
    \E k \in 1..Len(aeroFetches), snd \in Soundings :
        FetchSucceeds(k, Payload(aeroFetches[k], snd))

SpecChart == ChartInit /\ [][ChartNext]_vars

(***************************************************************************)
(* Specification of one diagram build from a payload whose five arrays     *)
(* have any lengths from 0 to MaxEdgeLen, equal or not                     *)
(***************************************************************************)
MaxEdgeLen == 2

\* the sounding whose arrays are the first lens[1], ..., lens[5] elements of
\* the arrays of a well-formed one
EdgeSounding(lens) ==
    LET full == Sounding(MaxEdgeLen, 1)
    IN  [pressure    |-> SubSeq(full.pressure, 1, lens[1]),
         temperature |-> SubSeq(full.temperature, 1, lens[2]),
         dewpoint    |-> SubSeq(full.dewpoint, 1, lens[3]),
         u_wind      |-> SubSeq(full.u_wind, 1, lens[4]),
         v_wind      |-> SubSeq(full.v_wind, 1, lens[5]),
         indices     |-> FALSE]

EdgeSoundings == {EdgeSounding(lens) : lens \in [1..5 -> 0..MaxEdgeLen]}

EdgeNext ==
    \E k \in 1..Len(aeroFetches), snd \in EdgeSoundings :
        FetchSucceeds(k, Payload(aeroFetches[k], snd))

SpecEdge == ChartInit /\ [][EdgeNext]_vars

(***************************************************************************)
(* Specification of the aero page with requests in flight together: the    *)
(* page is ready, and the user changes the hour and the date between       *)
(* clicks of the build button                                              *)
(***************************************************************************)
MaxRacePending == 2

RaceEnvironment ==
    [innerWidth |-> 1280, hardwareConcurrency |-> 8, userAgent |-> DesktopAgent]

RaceInit ==
    /\ innerWidth = RaceEnvironment.innerWidth
    /\ hardwareConcurrency = RaceEnvironment.hardwareConcurrency
    /\ userAgent = RaceEnvironment.userAgent
    /\ aeroPage = "ready"
    /\ isLowPerformance = FALSE
    /\ stationsFetch = FALSE
    /\ stationOptions = Stations
    /\ stationSelect = CHOOSE code \in Stations : TRUE
    /\ dateInput = Yesterday
    /\ hourSelect = "00"
    /\ aeroFetches = <<>>
    /\ loadingAero = FALSE
    /\ errorAero = NoError
    /\ stationInfo = EmptyStationInfo
    /\ indicesSection = FALSE
    /\ chartsSection = FALSE
    /\ dataTableSection = FALSE
    /\ tempChart = EmptyTempChart
    /\ windChart = EmptyWindChart
    /\ soundingTable = <<>>
    /\ lastData = <<>>
    /\ builtAtWidth = 0
    /\ afterOther = FALSE
    /\ latestRequest = <<>>
    /\ shownRequest = <<>>
    /\ MetarInit
    /\ ArchiveInit("")

\* the sounding the server holds for a request: one per hour of observation
ServedFor(req) == Sounding(IF req.hour = "00" THEN 1 ELSE 2, 1)

RaceNext ==
    \/ \E hour \in {"00", "12"} : ChangeHour(hour)
    \/ \E date \in {Yesterday, "2024-04-30"} : ChangeDate(date)
    \/ buildDiagram(MaxRacePending)
    \/ \E k \in 1..Len(aeroFetches) :
          FetchSucceeds(k, Payload(aeroFetches[k], ServedFor(aeroFetches[k])))
    \/ \E k \in 1..Len(aeroFetches) : FetchFails(k, "fetch error")

SpecRace == RaceInit /\ [][RaceNext]_vars

(***************************************************************************)
(* Specifications of the METAR page, all within one minute: the list of    *)
(* selected airports with auto-refresh; manual fetches and the callbacks   *)
(* of their requests; auto-refresh with manual fetches and clearAll for    *)
(* one airport                                                             *)
(***************************************************************************)
MaxSelected == 3

MaxControllers == 3

MaxAutoPending == 1

MaxRefreshControllers == 1

\* the aero page and the archive page as served
OtherPagesServed(env) == AeroInit(env) /\ ArchiveInit("")

MetarPageInit == OtherPagesServed(RaceEnvironment) /\ MetarInit

SelectNext ==
    \/ \E code \in Airports : selectAirport(Airport(code), MaxSelected)
    \/ \E code \in Airports : removeAirport(code)
    \/ clearAllMetar
    \/ autoRefreshToggleChange
    \/ performAutoRefresh(MaxAutoPending)
    \/ \E b \in 1..Len(autoBatches), replies \in [Airports -> SessionReplies] :
          AutoRefreshSucceeds(b, replies)
    \/ \E b \in 1..Len(autoBatches) : AutoRefreshFails(b)

SpecSelect == MetarPageInit /\ [][SelectNext]_vars

MetarNext ==
    \/ \E code \in Airports : selectAirport(Airport(code), MaxSelected)
    \/ window_fetchMetarTaf(MaxControllers)
    \/ \E b \in 1..Len(manualBatches), key \in Airports, data \in SessionReplies :
          MetarFetchSucceeds(b, key, data)
    \/ \E b \in 1..Len(manualBatches), key \in Airports : MetarFetchFails(b, key)

SpecMetar == MetarPageInit /\ [][MetarNext]_vars

\* the airport of the sessions with auto-refresh and manual fetches
RefreshAirports == {"UUEE"}

RefreshNext ==
    \/ \E code \in RefreshAirports : selectAirport(Airport(code), MaxSelected)
    \/ \E code \in RefreshAirports : removeAirport(code)
    \/ clearAllMetar
    \/ window_fetchMetarTaf(MaxRefreshControllers)
    \/ \E b \in 1..Len(manualBatches), key \in Airports, data \in SessionReplies :
          MetarFetchSucceeds(b, key, data)
    \/ autoRefreshToggleChange
    \/ performAutoRefresh(MaxAutoPending)
    \/ \E b \in 1..Len(autoBatches), replies \in [Airports -> SessionReplies] :
          AutoRefreshSucceeds(b, replies)
    \/ \E b \in 1..Len(autoBatches) : AutoRefreshFails(b)

SpecRefresh == MetarPageInit /\ [][RefreshNext]_vars

(***************************************************************************)
(* Specification of the cache of the METAR page: manual fetches over       *)
(* MaxTime minutes, with the cleanup timer                                 *)
(***************************************************************************)
MaxTime == 6

MaxCacheControllers == 2

CacheNext ==
    \/ \E code \in Airports : selectAirport(Airport(code), MaxSelected)
    \/ window_fetchMetarTaf(MaxCacheControllers)
    \/ \E b \in 1..Len(manualBatches), key \in Airports :
          MetarFetchSucceeds(b, key, [success |-> TRUE, metar |-> "METAR 1"])
    \/ TimePasses(MaxTime)
    \/ cleanupCache

SpecCache == MetarPageInit /\ [][CacheNext]_vars

(***************************************************************************)
(* Specification of the archive page, served with and without the icao     *)
(* parameter                                                               *)
(***************************************************************************)
MaxArchiveCalls == 2

ArchivePageInit ==
    /\ AeroInit(RaceEnvironment)
    /\ MetarInit
    /\ \E param \in {"", "UUEE"} : ArchiveInit(param)

ArchiveNext ==
    \/ ArchiveLoaded
    \/ ChangeDates
    \/ LoadArchiveClick(MaxArchiveCalls)
    \/ ResetDatesClick(MaxArchiveCalls)
    \/ \E r \in archiveRequests, history \in BOOLEAN : MetarArchiveResponds(r, history)
    \/ \E r \in archiveRequests : MetarArchiveFails(r)
    \/ \E r \in archiveRequests, history \in BOOLEAN : TafArchiveResponds(r, history)
    \/ \E r \in archiveRequests : TafArchiveFails(r)

SpecArchive == ArchivePageInit /\ [][ArchiveNext]_vars

(***************************************************************************)
(* Properties                                                              *)
(***************************************************************************)
\* the soundings passed to displayResults so far: none or the latest
ShownData == {lastData[j] : j \in 1..Len(lastData)}

\* the five arrays of d have the same length N >= 1
WellFormed(d) ==
    /\ Len(d.pressure) >= 1
    /\ Len(d.temperature) = Len(d.pressure)
    /\ Len(d.dewpoint) = Len(d.pressure)
    /\ Len(d.u_wind) = Len(d.pressure)
    /\ Len(d.v_wind) = Len(d.pressure)

\* (1000 - p) * 0.04 in hundredths, for a pressure p in hundredths of hPa
SkewShift(p) == ((1000 * SCALE - p) * 4) \div 100

\* C1: for a sounding of N levels with five arrays of equal length, the
\* temperature trace and the dewpoint trace plotted by createTemperatureChart
\* have exactly N points each, with x = temperature + (1000 - pressure) * 0.04
\* (resp. dewpoint + ...) and y = pressure at every level.
C1_SkewProjection ==
    \A d \in ShownData :
        WellFormed(d) =>
            LET n == Len(d.pressure)
            IN  /\ Len(tempChart.tempTrace.x) = n
                /\ Len(tempChart.tempTrace.y) = n
                /\ Len(tempChart.dewpointTrace.x) = n
                /\ Len(tempChart.dewpointTrace.y) = n
                /\ \A k \in 1..n :
                      /\ tempChart.tempTrace.x[k] =
                            d.temperature[k] + SkewShift(d.pressure[k])
                      /\ tempChart.dewpointTrace.x[k] =
                            d.dewpoint[k] + SkewShift(d.pressure[k])
                      /\ tempChart.tempTrace.y[k] = d.pressure[k]
                      /\ tempChart.dewpointTrace.y[k] = d.pressure[k]

\* a sounding of five levels aloft of 1000 hPa is plotted, shifted traces
C1_Witness ==
    \E d \in ShownData :
        /\ WellFormed(d)
        /\ Len(d.pressure) = 5
        /\ Len(tempChart.tempTrace.x) = 5
        /\ tempChart.tempTrace.x[5] # d.temperature[5]
        /\ tempChart.dewpointTrace.x[5] # d.dewpoint[5]
        /\ tempChart.tempTrace.x # tempChart.dewpointTrace.x

\* C2: round trip: at every level, the plotted point (x, y) of the
\* temperature (dewpoint) trace gives back the temperature (dewpoint) of the
\* level as x - (1000 - y) * 0.04.
C2_RoundTrip ==
    \A d \in ShownData :
        WellFormed(d) =>
            /\ Len(tempChart.tempTrace.x) = Len(d.temperature)
            /\ Len(tempChart.dewpointTrace.x) = Len(d.dewpoint)
            /\ \A k \in 1..Len(tempChart.tempTrace.x) :
                  tempChart.tempTrace.x[k] - SkewShift(tempChart.tempTrace.y[k])
                      = d.temperature[k]
            /\ \A k \in 1..Len(tempChart.dewpointTrace.x) :
                  tempChart.dewpointTrace.x[k]
                      - SkewShift(tempChart.dewpointTrace.y[k]) = d.dewpoint[k]

\* a plotted level aloft (non-zero shift) whose temperature and dewpoint
\* differ and are not whole degrees
C2_Witness ==
    \E d \in ShownData :
        /\ WellFormed(d)
        /\ \E k \in 1..Len(tempChart.tempTrace.x) :
              /\ SkewShift(tempChart.tempTrace.y[k]) > 0
              /\ d.temperature[k] % SCALE # 0
              /\ d.temperature[k] # d.dewpoint[k]
              /\ tempChart.tempTrace.x[k] - SkewShift(tempChart.tempTrace.y[k])
                    = d.temperature[k]

\* a temperature chart has been plotted
ChartPlotted == tempChart.isobars # <<>>

\* C3: the isotherm, dry-adiabat and isobar families of a plotted chart do
\* not depend on the sounding: they are the families that a build with the
\* same isLowPerformance gives for any other sounding, of any length and
\* values.
C3_GridIndependentOfSounding ==
    ChartPlotted =>
        \A snd \in {Sounding(1, 1), Sounding(MaxLevels, NumShapes)} :
            LET other == createTemperatureChart(snd, isLowPerformance)
            IN  /\ tempChart.isotherms = other.isotherms
                /\ tempChart.dryAdiabats = other.dryAdiabats
                /\ tempChart.isobars = other.isobars

\* a chart plotted for a sounding that differs in length and values from
\* both soundings it is compared with
C3_Witness ==
    /\ ChartPlotted
    /\ \E d \in ShownData :
          /\ Len(d.pressure) = 2
          /\ d.temperature[1] # Sounding(1, 1).temperature[1]
          /\ tempChart.tempTrace.x # createTemperatureChart(Sounding(1, 1),
                                          isLowPerformance).tempTrace.x

\* C4: the constrained profile gives no more isotherms and no more dry
\* adiabats than the full profile, and strictly fewer points on every
\* isotherm and every dry adiabat, both sampling down from 1050 hPa.
C4_ConstrainedIsCoarser ==
    ChartPlotted =>
        LET other == backgroundGrid[~isLowPerformance]
            lo    == IF isLowPerformance THEN tempChart ELSE other
            hi    == IF isLowPerformance THEN other ELSE tempChart
        IN  /\ Len(lo.isotherms) <= Len(hi.isotherms)
            /\ Len(lo.dryAdiabats) <= Len(hi.dryAdiabats)
            /\ \A a \in 1..Len(lo.isotherms), b \in 1..Len(hi.isotherms) :
                  /\ Len(lo.isotherms[a].x) < Len(hi.isotherms[b].x)
                  /\ Len(lo.isotherms[a].y) < Len(hi.isotherms[b].y)
                  /\ lo.isotherms[a].y[1] = 1050 * SCALE
                  /\ hi.isotherms[b].y[1] = 1050 * SCALE
            /\ \A a \in 1..Len(lo.dryAdiabats), b \in 1..Len(hi.dryAdiabats) :
                  /\ Len(lo.dryAdiabats[a].x) < Len(hi.dryAdiabats[b].x)
                  /\ Len(lo.dryAdiabats[a].y) < Len(hi.dryAdiabats[b].y)
                  /\ lo.dryAdiabats[a].y[1] = 1050 * SCALE
                  /\ hi.dryAdiabats[b].y[1] = 1050 * SCALE

\* a chart plotted under the constrained profile, with fewer curves
C4_Witness ==
    /\ ChartPlotted
    /\ isLowPerformance
    /\ Len(tempChart.isotherms) < Len(backgroundGrid[FALSE].isotherms)
    /\ Len(tempChart.dryAdiabats) < Len(backgroundGrid[FALSE].dryAdiabats)
    /\ Len(tempChart.isotherms[1].x) > 1

\* the shafts of the plotted wind barbs, in plotting order (line width 2)
Shafts == SelectSeq(windChart.windBarbs, LAMBDA t : t.width = 2 * SCALE)

\* the positions in windBarbs of the shafts
ShaftPositions ==
    {q \in 1..Len(windChart.windBarbs) : windChart.windBarbs[q].width = 2 * SCALE}

\* the positions of the decorations that follow the shaft at q, up to the
\* next shaft
Decorations(q) ==
    {r \in (q + 1)..Len(windChart.windBarbs) :
        \A z \in (q + 1)..r : z \notin ShaftPositions}

FlagsAt(q) == {r \in Decorations(q) : windChart.windBarbs[r].fill = "toself"}

TicksAt(q) == {r \in Decorations(q) : windChart.windBarbs[r].fill = "none"}

\* the level (counted from 1) of sounding d that the shaft at q is drawn for
LevelOfShaft(d, q) ==
    CHOOSE k \in 1..Len(d.pressure) : d.pressure[k] = windChart.windBarbs[q].y[1]

\* C5: for every level of a sounding, calm levels included, the computed
\* wind speed is >= 0 and the computed direction is in [0, 360).
C5_SpeedAndDirectionRange ==
    \A d \in ShownData :
        WellFormed(d) =>
            /\ Len(windChart.windSpeedTrace.x) = Len(d.u_wind)
            /\ Len(windChart.windDirection) = Len(d.u_wind)
            /\ \A k \in 1..Len(d.u_wind) :
                  /\ windChart.windSpeedTrace.x[k] >= 0
                  /\ windChart.windDirection[k] >= 0
                  /\ windChart.windDirection[k] < 360 * SCALE
                  /\ soundingTable[k].speed >= 0

\* a plotted profile with a calm level and a wind from due north
C5_Witness ==
    \E d \in ShownData :
        /\ WellFormed(d)
        /\ \E k \in 1..Len(d.u_wind) :
              /\ d.u_wind[k] = 0 /\ d.v_wind[k] = 0
              /\ windChart.windSpeedTrace.x[k] = 0
              /\ windChart.windDirection[k] = 180 * SCALE
        /\ \E k \in 1..Len(d.u_wind) :
              /\ d.u_wind[k] = 0 /\ d.v_wind[k] < 0
              /\ windChart.windDirection[k] = 0

\* C6: the direction is the direction the wind comes from: for s > 0,
\* (u, v) = (0, -s) gives speed s and direction 0, (-s, 0) gives 90, (0, s)
\* gives 180 and (s, 0) gives 270; u = 0, v = -10 gives speed 10, direction 0.
C6_CardinalDirections ==
    \A d \in ShownData :
        WellFormed(d) =>
            \A k \in 1..Len(d.u_wind) :
                LET u     == d.u_wind[k]
                    v     == d.v_wind[k]
                    speed == windChart.windSpeedTrace.x[k]
                    dir   == windChart.windDirection[k]
                IN  /\ (u = 0 /\ v < 0) => (speed = 0 - v /\ dir = 0)
                    /\ (u < 0 /\ v = 0) => (speed = 0 - u /\ dir = 90 * SCALE)
                    /\ (u = 0 /\ v > 0) => (speed = v /\ dir = 180 * SCALE)
                    /\ (u > 0 /\ v = 0) => (speed = u /\ dir = 270 * SCALE)
                    /\ (u = 0 /\ v = (0 - 10) * SCALE) =>
                           (speed = 10 * SCALE /\ dir = 0)

\* a plotted profile with winds from all four cardinal directions, the
\* northerly one being u = 0, v = -10
C6_Witness ==
    \E d \in ShownData :
        /\ WellFormed(d)
        /\ \E k \in 1..Len(d.u_wind) :
              /\ d.u_wind[k] = 0 /\ d.v_wind[k] = (0 - 10) * SCALE
              /\ windChart.windSpeedTrace.x[k] = 10 * SCALE
              /\ windChart.windDirection[k] = 0
        /\ \E k \in 1..Len(d.u_wind) : d.u_wind[k] < 0 /\ d.v_wind[k] = 0
        /\ \E k \in 1..Len(d.u_wind) : d.u_wind[k] = 0 /\ d.v_wind[k] > 0
        /\ \E k \in 1..Len(d.u_wind) :
              /\ d.u_wind[k] > 0 /\ d.v_wind[k] = 0
              /\ windChart.windDirection[k] = 270 * SCALE

\* C7: a glyph drawn for speed s holds floor(s / 50) flags and
\* floor((s - 50 * flags) / 10) ticks; the ticks number 0..4, the undrawn
\* remainder is in [0, 10), and s = 65 gives one flag and one tick.
C7_BarbDecomposition ==
    \A d \in ShownData :
        WellFormed(d) =>
            \A q \in ShaftPositions :
                LET speed    == windChart.windSpeedTrace.x[LevelOfShaft(d, q)]
                    numFlags == Cardinality(FlagsAt(q))
                    numBarbs == Cardinality(TicksAt(q))
                    rest     == speed - numFlags * 50 * SCALE - numBarbs * 10 * SCALE
                IN  /\ speed >= 0
                    /\ numFlags = speed \div (50 * SCALE)
                    /\ numBarbs = (speed - numFlags * 50 * SCALE) \div (10 * SCALE)
                    /\ numBarbs \in 0..4
                    /\ rest >= 0
                    /\ rest < 10 * SCALE
                    /\ speed = 65 * SCALE => (numFlags = 1 /\ numBarbs = 1)

\* a plotted glyph for speed 65 (one flag, one tick) and one for a speed of
\* 250 or more (five flags)
C7_Witness ==
    \E d \in ShownData :
        /\ WellFormed(d)
        /\ \E q \in ShaftPositions :
              /\ windChart.windSpeedTrace.x[LevelOfShaft(d, q)] = 65 * SCALE
              /\ Cardinality(FlagsAt(q)) = 1
              /\ Cardinality(TicksAt(q)) = 1
        /\ \E q \in ShaftPositions :
              /\ windChart.windSpeedTrace.x[LevelOfShaft(d, q)] >= 250 * SCALE
              /\ Cardinality(FlagsAt(q)) >= 5

\* max(1, floor(n / 20)) in whole numbers
IntervalFor(n) == IF n \div 20 >= 1 THEN n \div 20 ELSE 1

\* C8: for N levels the barbs are drawn at exactly the indices 0, k, 2k, ...
\* below N with k = max(1, floor(N / 20)), the surface level first; when
\* floor(N / 20) <= 1 every level is drawn.
C8_LevelDecimation ==
    \A d \in ShownData :
        WellFormed(d) =>
            LET n == Len(d.pressure)
                k == IntervalFor(n)
                m == (n + k - 1) \div k
            IN  /\ Len(Shafts) = m
                /\ \A j \in 1..m : Shafts[j].y = <<d.pressure[(j - 1) * k + 1],
                                                   d.pressure[(j - 1) * k + 1]>>
                /\ Shafts[1].y[1] = d.pressure[1]
                /\ n \div 20 <= 1 => Len(Shafts) = n

\* a profile of 40 levels or more, drawn at every second level
C8_Witness ==
    \E d \in ShownData :
        /\ WellFormed(d)
        /\ Len(d.pressure) >= 40
        /\ Len(Shafts) < Len(d.pressure)
        /\ Len(Shafts) >= 20
        /\ Shafts[2].y[1] = d.pressure[3]

\* C9: whatever the number of levels, no more than 20 barb shafts are drawn
\* for one profile.
C9_AtMostTwentyShafts ==
    \A d \in ShownData : WellFormed(d) => Len(Shafts) <= 20

\* the product tokens that mark a user agent as a mobile device
MobileTokens ==
    {"android", "webos", "iphone", "ipad", "ipod", "blackberry", "iemobile",
     "opera mini"}

\* the classification the page should arrive at in its present environment
Constrained ==
    \/ innerWidth <= 768
    \/ (hardwareConcurrency # undefined /\ hardwareConcurrency <= 2)
    \/ \E token \in userAgent : token \in MobileTokens

\* the families of the constrained step set: isotherm step 20, pressure step
\* 100, adiabats -40, 0, 40, 80 sampled every 20 hPa
ConstrainedIsotherms == IsothermFamily(20 * SCALE, 100 * SCALE)

ConstrainedAdiabats ==
    AdiabatFamily(<<(0 - 40) * SCALE, 0, 40 * SCALE, 80 * SCALE>>, 20 * SCALE)

\* the families of the full step set: isotherm step 10, pressure step 50,
\* adiabats -40, -20, ..., 100 sampled every 10 hPa
FullIsotherms == IsothermFamily(10 * SCALE, 50 * SCALE)

FullAdiabats ==
    AdiabatFamily(<<(0 - 40) * SCALE, (0 - 20) * SCALE, 0, 20 * SCALE,
                    40 * SCALE, 60 * SCALE, 80 * SCALE, 100 * SCALE>>,
                  10 * SCALE)

HasConstrainedGrid(chart) ==
    /\ chart.isotherms = ConstrainedIsotherms
    /\ chart.dryAdiabats = ConstrainedAdiabats

HasFullGrid(chart) ==
    /\ chart.isotherms = FullIsotherms
    /\ chart.dryAdiabats = FullAdiabats

ConstrainedGridPlotted == HasConstrainedGrid(tempChart)

FullGridPlotted == HasFullGrid(tempChart)

\* C10: the page is classified constrained exactly when the viewport width is
\* <= 768 or the hardware concurrency is <= 2 or the device is mobile, the
\* classification stays as it was made, and every chart is built wholly with
\* the constrained step set or wholly with the full one, as classified.
C10_TwoStepSets ==
    /\ [][(aeroPage = "loading" /\ aeroPage' = "ready") =>
              (isLowPerformance' = Constrained)]_vars
    /\ [][aeroPage = "ready" => isLowPerformance' = isLowPerformance]_vars
    /\ [](ChartPlotted =>
              IF isLowPerformance THEN ConstrainedGridPlotted /\ ~FullGridPlotted
              ELSE FullGridPlotted /\ ~ConstrainedGridPlotted)

\* a chart plotted with the constrained step set on a wide desktop screen
\* that is constrained by its two processor cores alone
C10_Witness ==
    /\ aeroPage = "ready"
    /\ ChartPlotted
    /\ isLowPerformance
    /\ ConstrainedGridPlotted
    /\ innerWidth = 769
    /\ hardwareConcurrency = 2
    /\ userAgent \cap MobileTokens = {}

\* a step that completes a diagram build: the charts section comes up
BuildCompletes == ~chartsSection /\ chartsSection'

\* C11 (as stated): each build uses the step set given by the classification
\* of the signals (viewport width, hardware concurrency, user agent) as they
\* are at the time of that build.
C11_RecomputedPerBuild ==
    [][BuildCompletes =>
          IF Constrained THEN HasConstrainedGrid(tempChart')
          ELSE HasFullGrid(tempChart')]_vars

\* C11 (amended): the density profile is computed once, when the page loads,
\* and kept for the page session: a change of viewport width changes neither
\* the profile nor the plotted chart, and each build uses the step set of the
\* profile computed at load.
C11_ProfileFixedAtLoad ==
    /\ [][(aeroPage = "loading" /\ aeroPage' = "ready") =>
              (isLowPerformance' = Constrained)]_vars
    /\ [][(aeroPage = "ready" /\ innerWidth' # innerWidth) =>
              (isLowPerformance' = isLowPerformance /\ tempChart' = tempChart)]_vars
    /\ [][BuildCompletes =>
              /\ isLowPerformance' = isLowPerformance
              /\ IF isLowPerformance THEN HasConstrainedGrid(tempChart')
                 ELSE HasFullGrid(tempChart')]_vars

\* a chart built at the present viewport width with the step set of the
\* profile computed at load, which is not the one the present signals give
C11_Witness ==
    /\ aeroPage = "ready"
    /\ chartsSection
    /\ ChartPlotted
    /\ builtAtWidth = innerWidth
    /\ isLowPerformance # Constrained
    /\ IF isLowPerformance THEN ConstrainedGridPlotted ELSE FullGridPlotted

\* the five arrays of d do not all have the same length
Mismatched(d) ==
    \E a \in {d.temperature, d.dewpoint, d.u_wind, d.v_wind} :
        Len(a) # Len(d.pressure)

\* C12: when the five arrays of the sounding do not all have the same length
\* the build fails with an error and hands no temperature, dewpoint,
\* wind-speed or wind-barb trace to the renderer.
C12_MismatchFailsFast ==
    \A d \in ShownData :
        Mismatched(d) =>
            /\ errorAero.shown
            /\ tempChart = EmptyTempChart
            /\ windChart = EmptyWindChart
            /\ ~chartsSection

\* the five arrays of d are empty
EmptySounding(d) ==
    /\ d.pressure = <<>>
    /\ d.temperature = <<>>
    /\ d.dewpoint = <<>>
    /\ d.u_wind = <<>>
    /\ d.v_wind = <<>>

\* C13: for an empty sounding the build raises no error: displayResults
\* completes, the temperature, dewpoint and wind-speed traces are plotted
\* empty with no wind barb, and the charts and table sections are shown.
C13_EmptySoundingBuilds ==
    \A d \in ShownData :
        EmptySounding(d) =>
            /\ ~errorAero.shown
            /\ ChartPlotted
            /\ tempChart.tempTrace.x = <<>>
            /\ tempChart.dewpointTrace.x = <<>>
            /\ windChart.windSpeedTrace.x = <<>>
            /\ windChart.windBarbs = <<>>
            /\ chartsSection
            /\ dataTableSection

\* C14: a build leaves the five arrays of the sounding as they were served,
\* and no state is shared between builds: whatever was built before in the
\* session, the plotted traces, barbs and table rows are those of the latest
\* sounding alone (one point, one row per level; shafts of its own levels).
C14_BuildsIndependent ==
    \A d \in ShownData :
        WellFormed(d) =>
            LET n == Len(d.pressure)
                k == IntervalFor(n)
            IN  /\ \E snd \in SessionSoundings :
                      /\ d.pressure = snd.pressure
                      /\ d.temperature = snd.temperature
                      /\ d.dewpoint = snd.dewpoint
                      /\ d.u_wind = snd.u_wind
                      /\ d.v_wind = snd.v_wind
                /\ tempChart.tempTrace.y = d.pressure
                /\ tempChart.dewpointTrace.y = d.pressure
                /\ Len(tempChart.tempTrace.x) = n
                /\ Len(tempChart.dewpointTrace.x) = n
                /\ \A j \in 1..n :
                      /\ tempChart.tempTrace.x[j] =
                             d.temperature[j] + SkewShift(d.pressure[j])
                      /\ tempChart.dewpointTrace.x[j] =
                             d.dewpoint[j] + SkewShift(d.pressure[j])
                /\ Len(tempChart.isobars) = 7
                /\ IF isLowPerformance THEN HasConstrainedGrid(tempChart)
                   ELSE HasFullGrid(tempChart)
                /\ windChart.windSpeedTrace.y = d.pressure
                /\ Len(windChart.windSpeedTrace.x) = n
                /\ Len(windChart.windDirection) = n
                /\ Len(Shafts) = (n + k - 1) \div k
                /\ \A j \in 1..Len(Shafts) :
                      Shafts[j].y[1] = d.pressure[(j - 1) * k + 1]
                /\ Len(soundingTable) = n
                /\ \A j \in 1..n : soundingTable[j].pressure = d.pressure[j]

\* a one-level sounding built right after a different sounding was built in
\* the same session, showing one point, one shaft and one row
C14_Witness ==
    /\ afterOther
    /\ \E d \in ShownData :
          /\ WellFormed(d)
          /\ Len(d.pressure) = 1
          /\ Len(tempChart.tempTrace.x) = 1
          /\ Len(Shafts) = 1
          /\ Len(soundingTable) = 1

\* C15: the isotherm family holds one polyline per nominal temperature
\* -80, -80 + step, ..., 40 (13 for step 10 in full mode, 7 for step 20 in
\* constrained mode), and every point of the polyline for t is
\* (t + (1000 - p) * 0.04, p) at its sampled pressure p.
C15_IsothermFamily ==
    ChartPlotted =>
        LET step  == IF isLowPerformance THEN 20 ELSE 10
            count == IF isLowPerformance THEN 7 ELSE 13
        IN  /\ Len(tempChart.isotherms) = count
            /\ (0 - 80) + (count - 1) * step = 40
            /\ \A a \in 1..Len(tempChart.isotherms) :
                  LET t    == ((0 - 80) + (a - 1) * step) * SCALE
                      line == tempChart.isotherms[a]
                  IN  /\ Len(line.x) = Len(line.y)
                      /\ Len(line.x) >= 2
                      /\ \A j \in 1..Len(line.x) :
                            line.x[j] = t + SkewShift(line.y[j])

\* the full chart: 13 isotherms, the last one that of 40 degrees
C15_Witness ==
    /\ ChartPlotted
    /\ ~isLowPerformance
    /\ Len(tempChart.isotherms) = 13
    /\ tempChart.isotherms[13].y[1] = 1050 * SCALE
    /\ tempChart.isotherms[13].x[1] = 38 * SCALE
    /\ tempChart.isotherms[1].x[2] = (0 - 80) * SCALE

\* polyline line starts at 1050 hPa, ends at 100 hPa and steps down by step
SampledDownTo100(line, step) ==
    /\ Len(line.y) >= 1
    /\ line.y[1] = 1050 * SCALE
    /\ line.y[Len(line.y)] = 100 * SCALE
    /\ \A j \in 1..(Len(line.y) - 1) : line.y[j] - line.y[j + 1] = step * SCALE

\* C16: in both density modes every isotherm and every dry adiabat is sampled
\* from 1050 hPa down to 100 hPa: first point at 1050, last point at 100,
\* successive points one step apart (50 / 100 for isotherms, 10 / 20 for
\* dry adiabats).
C16_SampledFrom1050To100 ==
    ChartPlotted =>
        /\ \A a \in 1..Len(tempChart.isotherms) :
              SampledDownTo100(tempChart.isotherms[a],
                               IF isLowPerformance THEN 100 ELSE 50)
        /\ \A a \in 1..Len(tempChart.dryAdiabats) :
              SampledDownTo100(tempChart.dryAdiabats[a],
                               IF isLowPerformance THEN 20 ELSE 10)

\* the reference potential temperatures of the two modes, in degrees
FullThetas == <<0 - 40, 0 - 20, 0, 20, 40, 60, 80, 100>>

ConstrainedThetas == <<0 - 40, 0, 40, 80>>

\* C17: the dry-adiabat family holds one polyline per reference potential
\* temperature of the mode's set, in that order (8 in full mode, 4 in
\* constrained mode); the constrained set is a subset of the full set and
\* every point has y equal to its sampled pressure.
C17_AdiabatFamily ==
    ChartPlotted =>
        LET thetas == IF isLowPerformance THEN ConstrainedThetas ELSE FullThetas
            step   == IF isLowPerformance THEN 20 ELSE 10
        IN  /\ Len(tempChart.dryAdiabats) = Len(thetas)
            /\ Len(tempChart.dryAdiabats) = IF isLowPerformance THEN 4 ELSE 8
            /\ \A a \in 1..Len(tempChart.dryAdiabats) :
                  LET line == tempChart.dryAdiabats[a]
                  IN  /\ Len(line.x) = Len(line.y)
                      /\ Len(line.x) >= 2
                      /\ \A j \in 1..Len(line.y) :
                            /\ line.y[j] = (1050 - (j - 1) * step) * SCALE
                            /\ line.x[j] =
                                  ((thetas[a] * SCALE * PoissonFactor(line.y[j]))
                                      \div SCALE)
                                  - 27315 + SkewShift(line.y[j])
            /\ \A a \in 1..Len(ConstrainedThetas) :
                  \E b \in 1..Len(FullThetas) : ConstrainedThetas[a] = FullThetas[b]
            /\ isLowPerformance =>
                  \A a \in 1..Len(tempChart.dryAdiabats) :
                      \E b \in 1..Len(FullAdiabats) :
                          tempChart.dryAdiabats[a].x[1] = FullAdiabats[b].x[1]

\* the full chart: 8 dry adiabats, the last one that of 100 degrees
C17_Witness ==
    /\ ChartPlotted
    /\ ~isLowPerformance
    /\ Len(tempChart.dryAdiabats) = 8
    /\ tempChart.dryAdiabats[8].y[6] = 1000 * SCALE
    /\ tempChart.dryAdiabats[8].x[6] = 100 * SCALE - 27315
    /\ tempChart.dryAdiabats[3].x[1] = 0 - 27315 - 2 * SCALE

\* C18: on the dry adiabat of reference potential temperature theta0 the
\* point sampled at 1000 hPa (full mode) has x equal to theta0.
C18_AdiabatThroughTheta0 ==
    (ChartPlotted /\ ~isLowPerformance) =>
        \A a \in 1..Len(tempChart.dryAdiabats) :
            \A j \in 1..Len(tempChart.dryAdiabats[a].y) :
                tempChart.dryAdiabats[a].y[j] = 1000 * SCALE =>
                    tempChart.dryAdiabats[a].x[j] = FullThetas[a] * SCALE

\* the standard levels of the isobars
StandardLevels == <<1000, 850, 700, 500, 300, 200, 100>>

\* C19: the isobar family holds seven two-point segments, one per level
\* 1000, 850, 700, 500, 300, 200, 100 in that order, with y = p at both ends
\* and x from -100 + (1000 - p) * 0.04 to 60 + (1000 - p) * 0.04: horizontal
\* and 160 x-units long.
C19_IsobarFamily ==
    ChartPlotted =>
        /\ Len(tempChart.isobars) = 7
        /\ \A a \in 1..Len(tempChart.isobars) :
              LET p    == StandardLevels[a] * SCALE
                  line == tempChart.isobars[a]
              IN  /\ line.y = <<p, p>>
                  /\ line.x = <<(0 - 100) * SCALE + SkewShift(p),
                                60 * SCALE + SkewShift(p)>>
                  /\ line.x[2] - line.x[1] = 160 * SCALE

\* a chart whose last isobar is the one of 100 hPa, from -64 to 96
C19_Witness ==
    /\ ChartPlotted
    /\ Len(tempChart.isobars) = 7
    /\ tempChart.isobars[7] =
           [x |-> <<(0 - 64) * SCALE, 96 * SCALE>>, y |-> <<100 * SCALE, 100 * SCALE>>]
    /\ tempChart.isobars[2].x[1] = (0 - 94) * SCALE

\* min(s / 5, 15) for a speed s >= 0 on the grid
CappedLength(s) == IF s \div 5 < 15 * SCALE THEN s \div 5 ELSE 15 * SCALE

\* C20: the shaft of a selected level with pressure p, speed s and direction
\* dir is the segment from (0, p) to (-min(s / 5, 15) * sin(dir), p): it lies
\* on one pressure row, is at most 15 x-units long, and has length 0 for s = 0.
C20_ShaftGeometry ==
    \A d \in ShownData :
        WellFormed(d) =>
            \A q \in ShaftPositions :
                LET k     == LevelOfShaft(d, q)
                    s     == windChart.windSpeedTrace.x[k]
                    dir   == windChart.windDirection[k]
                    shaft == windChart.windBarbs[q]
                IN  /\ shaft.y = <<d.pressure[k], d.pressure[k]>>
                    /\ Len(shaft.x) = 2
                    /\ shaft.x[1] = 0
                    /\ shaft.x[2] = ((0 - CappedLength(s)) * SinDegrees(dir)) \div SCALE
                    /\ shaft.x[2] <= 15 * SCALE
                    /\ shaft.x[2] >= (0 - 15) * SCALE
                    /\ s = 0 => shaft.x[2] = 0

\* a profile with a calm level (zero-length shaft) and a level of 250 km/h
\* whose shaft is capped: shorter than 15 although s / 5 is 50
C20_Witness ==
    \E d \in ShownData :
        /\ WellFormed(d)
        /\ \E q \in ShaftPositions :
              /\ windChart.windSpeedTrace.x[LevelOfShaft(d, q)] = 0
              /\ windChart.windBarbs[q].x = <<0, 0>>
        /\ \E q \in ShaftPositions :
              /\ windChart.windSpeedTrace.x[LevelOfShaft(d, q)] = 250 * SCALE
              /\ windChart.windBarbs[q].x[2] # 0
              /\ windChart.windBarbs[q].x[2] >= (0 - 15) * SCALE
              /\ windChart.windBarbs[q].x[2] <= 15 * SCALE

\* the number of polylines of the glyphs of levels j, j + k, ... of sounding
\* d (levels counted from 1), by the speeds plotted in the wind-speed trace
RECURSIVE ExpectedPolylines(_, _, _)
ExpectedPolylines(d, j, k) ==
    IF j > Len(d.pressure) THEN 0
    ELSE LET s        == windChart.windSpeedTrace.x[j]
             numFlags == s \div (50 * SCALE)
             numBarbs == (s - numFlags * 50 * SCALE) \div (10 * SCALE)
         IN  1 + numFlags + numBarbs + ExpectedPolylines(d, j + k, k)

\* C21: a glyph is one shaft, then its flags, then its ticks; flag number i
\* (from 0) is anchored at 0.7 - 0.15 * i of the shaft end x1 and tick
\* number j (from 0) at 0.7 - 0.15 * numFlags - 0.1 * j; the barbs of a
\* profile are the sum over its selected levels of 1 + numFlags + numBarbs
\* polylines.
C21_GlyphLayout ==
    \A d \in ShownData :
        WellFormed(d) =>
            /\ Len(windChart.windBarbs) =
                   ExpectedPolylines(d, 1, IntervalFor(Len(d.pressure)))
            /\ 1 \in ShaftPositions
            /\ \A q \in ShaftPositions :
                  LET x1       == windChart.windBarbs[q].x[2]
                      numFlags == Cardinality(FlagsAt(q))
                      numBarbs == Cardinality(TicksAt(q))
                  IN  /\ FlagsAt(q) = (q + 1)..(q + numFlags)
                      /\ TicksAt(q) = (q + numFlags + 1)..(q + numFlags + numBarbs)
                      /\ \A i \in 0..(numFlags - 1) :
                            /\ Len(windChart.windBarbs[q + 1 + i].x) = 3
                            /\ windChart.windBarbs[q + 1 + i].x[1] =
                                   (x1 * (70 - 15 * i)) \div 100
                      /\ \A j \in 0..(numBarbs - 1) :
                            /\ Len(windChart.windBarbs[q + numFlags + 1 + j].x) = 2
                            /\ windChart.windBarbs[q + numFlags + 1 + j].x[1] =
                                   (x1 * (70 - 15 * numFlags - 10 * j)) \div 100

\* a glyph with one flag and then one tick on a shaft of non-zero length:
\* the tick is anchored at 0.55 of the shaft end, the flag at 0.7
C21_Witness ==
    \E d \in ShownData :
        /\ WellFormed(d)
        /\ \E q \in ShaftPositions :
              /\ windChart.windBarbs[q].x[2] # 0
              /\ FlagsAt(q) = {q + 1}
              /\ TicksAt(q) = {q + 2}
              /\ windChart.windBarbs[q + 1].x[1] =
                     (windChart.windBarbs[q].x[2] * 70) \div 100
              /\ windChart.windBarbs[q + 2].x[1] =
                     (windChart.windBarbs[q].x[2] * 55) \div 100
              /\ windChart.windBarbs[q + 2].x[1] # windChart.windBarbs[q + 1].x[1]

\* x lies on the segment from 0 to 0.7 of x1
OnShaft(x, x1) ==
    IF x1 >= 0 THEN 0 <= x /\ x <= (x1 * 70) \div 100
    ELSE (x1 * 70) \div 100 <= x /\ x <= 0

\* C22: every flag and every tick is anchored on the shaft, between the
\* origin and 0.7 of the shaft end, for every speed.
C22_DecorationsOnShaft ==
    \A d \in ShownData :
        WellFormed(d) =>
            \A q \in ShaftPositions :
                \A r \in Decorations(q) :
                    OnShaft(windChart.windBarbs[r].x[1], windChart.windBarbs[q].x[2])

\* C23: every flag is a triangle of non-zero area: its three vertices do not
\* all have the same y.
C23_FlagsAreTriangles ==
    \A d \in ShownData :
        WellFormed(d) =>
            \A q \in ShaftPositions :
                \A r \in FlagsAt(q) :
                    /\ Len(windChart.windBarbs[r].x) = 3
                    /\ Len(windChart.windBarbs[r].y) = 3
                    /\ \E a, b \in 1..3 :
                          windChart.windBarbs[r].y[a] # windChart.windBarbs[r].y[b]

(***************************************************************************)
(* The METAR page: the list of selected airports                           *)
(***************************************************************************)
\* no two entries of list have the same ICAO code
NoDuplicates(list) ==
    \A i, j \in 1..Len(list) : list[i].icao = list[j].icao => i = j

\* C24: after any sequence of selectAirport, removeAirport and clearAll (and
\* of auto-refresh events) selectedAirports never holds two entries with the
\* same ICAO code; selecting an airport that is already in the list leaves
\* the list as it is and shows an error; removeAirport(icao) removes the
\* entries with that code and keeps the others in their order; clearAll
\* leaves the list empty.
C24_NoDuplicateAirports ==
    /\ [](NoDuplicates(selectedAirports))
    /\ [][/\ \A code \in Airports :
               (code \in Keys(selectedAirports)
                    /\ selectAirport(Airport(code), MaxSelected))
               => /\ selectedAirports' = selectedAirports
                  /\ errorMetar'.shown
          /\ \A code \in Airports :
               removeAirport(code)
               => /\ code \notin Keys(selectedAirports')
                  /\ Keys(selectedAirports') = Keys(selectedAirports) \ {code}
                  /\ \A i, j \in 1..Len(selectedAirports') :
                        i < j =>
                        \E m, n \in 1..Len(selectedAirports) :
                            /\ m < n
                            /\ selectedAirports[m] = selectedAirports'[i]
                            /\ selectedAirports[n] = selectedAirports'[j]
          /\ clearAllMetar => selectedAirports' = <<>>]_vars

\* both airports are listed and a second selection of one of them was
\* refused with the error
C24_Witness ==
    /\ Len(selectedAirports) = 2
    /\ errorMetar.shown
    /\ errorMetar.text = "already added"

(***************************************************************************)
(* The METAR page: the cache                                               *)
(***************************************************************************)
\* C25 (as stated): a manual fetch never displays cached data that is 5
\* minutes old or older: whenever a manual fetch displays its results, the
\* data it took from the cache is, at that time, younger than 5 minutes.
C25_NeverShowsStaleCache == cacheAgeShown < 5

\* the /fetch request for key sent by the fetchMetarTaf call of this step
RequestedNow(key) ==
    \E b \in 1..Len(manualBatches') :
        /\ manualBatches'[b].controller = controllersCreated'
        /\ key \in manualBatches'[b].pending

\* the fetchMetarTaf call of this step resolved key with the cached data
ServedFromCache(key) ==
    \/ \E b \in 1..Len(manualBatches') :
          /\ manualBatches'[b].controller = controllersCreated'
          /\ manualBatches'[b].results[key] = dataCache[key].data
          /\ manualBatches'[b].cachedAt[key] = dataCache[key].timestamp
    \/ /\ resultSection'.shown
       /\ shownBatch' = controllersCreated'
       /\ \E c \in 1..Len(resultSection'.cards) :
             resultSection'.cards[c] =
                 [icao |-> key, metar |-> dataCache[key].data.metar]

\* C25 (amended): the age of a cache entry is tested when the manual fetch
\* starts: an airport is resolved from dataCache, with no request, exactly if
\* its entry is then less than 5 minutes old, and is requested from /fetch
\* otherwise; every reply is stored with the time of its arrival; the
\* cleanup timer never deletes an entry of 5 minutes or less.
C25_FreshWhenFetchStarts ==
    [][/\ controllersCreated' # controllersCreated =>
            \A key \in Keys(selectedAirports) :
                LET young == /\ dataCache[key].timestamp >= 0
                             /\ now - dataCache[key].timestamp < 5
                IN  /\ young => ServedFromCache(key) /\ ~RequestedNow(key)
                    /\ ~young => RequestedNow(key)
       /\ \A key \in Airports :
            /\ (dataCache'[key] # dataCache[key] /\ dataCache'[key] # NoEntry)
                   => dataCache'[key].timestamp = now'
            /\ (dataCache'[key] = NoEntry /\ dataCache[key] # NoEntry)
                   => now - dataCache[key].timestamp > 5]_vars

\* a manual fetch displayed data taken from the cache at the age of 4
\* minutes, together with the reply of a request whose arrival was stored
\* in the cache in the fifth minute or later
C25_Witness ==
    /\ cacheAgeShown = 4
    /\ \E key \in Airports : dataCache[key].timestamp >= 5

(***************************************************************************)
(* The METAR page: manual fetches in flight                                *)
(***************************************************************************)
\* the batches of manual fetches whose Promise.all is not settled
RunningBatches ==
    {b \in 1..Len(manualBatches) : ~manualBatches[b].settled}

\* C26: whenever a manual batch that was not aborted has requests
\* outstanding, the loading indicator is visible and currentFetchController is
\* the controller of that batch; at most one such batch is in flight; the
\* results on display are those of the latest batch.
C26_OneBatchInFlight ==
    /\ \A b \in RunningBatches :
          /\ loadingMetar
          /\ currentFetchController = manualBatches[b].controller
    /\ Cardinality(RunningBatches) <= 1
    /\ (resultSection.shown /\ shownBatch # 0) => shownBatch = controllersCreated

(***************************************************************************)
(* The METAR page: auto-refresh                                            *)
(***************************************************************************)
AutoRefreshStopped ==
    /\ ~autoRefreshToggle
    /\ ~autoRefreshInterval
    /\ ~countdownInterval
    /\ refreshTimers = 0
    /\ countdownTimers = 0

\* C27: autoRefreshInterval and countdownInterval are both set or both null,
\* and set exactly when the toggle is checked; each handle that is set owns
\* the only active timer of its kind and no timer is active otherwise; a
\* manual fetch and clearAll leave auto-refresh stopped; startAutoRefresh
\* with no selected airport starts no timer and unchecks the toggle.
C27_AutoRefreshConsistent ==
    /\ [](/\ autoRefreshInterval = countdownInterval
          /\ autoRefreshInterval = autoRefreshToggle
          /\ refreshTimers = (IF autoRefreshInterval THEN 1 ELSE 0)
          /\ countdownTimers = (IF countdownInterval THEN 1 ELSE 0))
    /\ [][/\ (window_fetchMetarTaf(MaxRefreshControllers) \/ clearAllMetar)
               => AutoRefreshStopped'
          /\ (autoRefreshToggleChange /\ ~autoRefreshToggle
                  /\ Len(selectedAirports) = 0)
               => AutoRefreshStopped' /\ errorMetar'.shown]_vars

\* a refresh request is in flight and a manual fetch, started afterwards, is
\* loading with auto-refresh stopped
C27_Witness ==
    /\ autoBatches # <<>>
    /\ loadingMetar
    /\ AutoRefreshStopped

\* C28: after clearAll the result section stays empty and hidden until a
\* new manual fetch is started, whatever response arrives in between.
C28_ClearedStaysEmpty ==
    cleared => ~resultSection.shown /\ resultSection.cards = <<>>

(***************************************************************************)
(* The aero page: responses of requests in flight together                 *)
(***************************************************************************)
\* C29: once no /aero/fetch request is outstanding and a diagram is on
\* display, the diagram, the station title, the date and hour labels and the
\* table are those of the request sent last.
C29_LatestRequestShown ==
    (aeroFetches = <<>> /\ chartsSection) =>
        /\ shownRequest = latestRequest
        /\ lastData = <<Payload(latestRequest[1], ServedFor(latestRequest[1]))>>
        /\ stationInfo.title[1] = latestRequest[1].station_id
        /\ stationInfo.date = latestRequest[1].date
        /\ stationInfo.hour = latestRequest[1].hour
        /\ soundingTable = createDataTable(lastData[1])

(***************************************************************************)
(* The archive page: the loading indicator                                 *)
(***************************************************************************)
\* C30: the loading indicator is visible whenever an archive request is
\* outstanding and hidden once none is; if the icao parameter is missing, an
\* error is shown and no archive request is ever sent.
C30_LoadingWhileOutstanding ==
    /\ archiveRequests # {} => loadingArchive
    /\ archiveRequests = {} => ~loadingArchive
    /\ (icao = "" /\ archivePage = "ready") =>
          errorArchive.shown /\ requestsSent = 0

====
